---- MODULE Spec2Model ----
\* Verification model of the ROM catalog audit core of Advanced Emulator
\* Launcher: resources/rom_audit.py and resources/utils.py.
\*
\* The module holds one specification per component. Every specification
\* shares the variable list; the variables of the components a specification
\* does not exercise stay at their idle values.
\*
\*   SpecResolver   audit_make_NoIntro_PClone_dic / audit_make_NoIntro_Parents_dic
\*   SpecXML        text_escape_XML / text_unescape_XML
\*   SpecChecksum   misc_read_in_chunks / misc_calculate_checksums
\*   SpecTempest    audit_load_Tempest_INI
\*   SpecMultidisc  text_get_ROM_basename_tokens / text_get_multidisc_info
\*   SpecLoaders    audit_load_LB_metadata_XML, audit_load_OfflineScraper_XML,
\*                  audit_load_NoIntro_XML_file, audit_load_GameDB_XML,
\*                  audit_load_HyperList_XML
\*   SpecBios       the BIOS audit over Libretro_BIOS_list
\*   SpecDialog     KodiProgressDialog
\*   SpecWizard     WizardDialog.runWizard / executeDialog
\*   SpecLimit      text_limit_string
\*   SpecCache      misc_add_file_cache / misc_search_file_cache
\*   SpecMigration  Migration_0_9_9.execute
EXTENDS Integers, Sequences, FiniteSets, TLC

VARIABLES
    \* --- ParentCloneResolver (rom_audit.py 438-465) ---
    nointro_dic,              \* the catalog: name -> machine record
    resolver_pc,              \* "idle" | "pclone" | "parents": the running call
    visit_order,              \* order in which `for machine_name in nointro_dic` visits
    visit_idx,                \* number of records already visited by the running call
    main_pclone_dic,          \* local of audit_make_NoIntro_PClone_dic
    main_clone_to_parent_dic, \* local of audit_make_NoIntro_Parents_dic
    pclone_results,           \* graphs returned so far, in call order
    parents_results,          \* clone-to-parent maps returned so far, in call order
    \* --- XML text escaping (utils.py 393-427) ---
    xml_in,                   \* the string handed to the first call
    xml_pc,                   \* "idle" | "escape" | "unescape" | "done"
    xml_step,                 \* number of replace() statements executed by the running call
    data_str,                 \* the local data_str of the running call
    escaped,                  \* return value of text_escape_XML, NoStr when not called
    unescape_arg,             \* argument of the text_unescape_XML call
    xml_out,                  \* return value of text_unescape_XML
    \* --- ChecksumEngine (utils.py 786-825) ---
    file_bytes,               \* content of the file at full_file_path
    cks_pc,                   \* position inside misc_calculate_checksums
    f_state,                  \* the handle f: "none" | "open" | "closed"
    f_pos,                    \* read position of f
    crc_prev,                 \* running CRC32
    md5,                      \* bytes fed to the md5 object so far
    sha1,                     \* bytes fed to the sha1 object so far
    crc_digest,
    md5_digest,
    sha1_digest,
    size,
    cks_exc,                  \* exception raised inside the try block, "" when none
    checksums,                \* NotReturned until the call returns; then None or the dictionary
    \* --- CatalogParser, Tempest INI (rom_audit.py 332-393) ---
    ini_exists,               \* file_FN.exists()
    ini_lines,                \* the lines of the file
    tmp_pc,                   \* position inside audit_load_Tempest_INI
    ini_f,                    \* the handle f: "none" | "open" | "closed"
    line_no,                  \* number of lines the for loop has taken from f
    read_status,
    games,
    game,
    game_key,
    tmp_exc,                  \* the exception that left the call: [type, at (source line)]
    tmp_ret,                  \* NotReturned until the call returns; then the games dictionary
    \* --- MultiDiscDetector (utils.py 592-683) ---
    ROM_FN,                   \* the FileName argument: [base_noext, ext]
    md_pc,                    \* position inside text_get_multidisc_info
    tokens,
    md_index,                 \* number of tokens the for loop has passed
    MultDiscFound,
    matchObj,                 \* group(1) of the last match, NoStr for no match
    tokens_mdisc,
    MDSet,
    md_exc,                   \* the exception that left the call, "" when none
    md_ret,                   \* NotReturned until the call returns; then the MultiDiscInfo
    \* --- CatalogParser, XML loaders (rom_audit.py 146-330, 395-436) ---
    ld_loader,                \* the loader that is called
    ld_FN,                    \* the FileName argument: [cls, exists, read, root]
    ld_pc,                    \* position inside the loader
    ld_idx,                   \* number of root children the for loop has passed
    ld_games,                 \* the local catalog (games / nointro_roms)
    games_dic,                \* the three dictionaries handed to the LaunchBox loader
    platforms_dic,
    gameimages_dic,
    ld_exc,                   \* the exception that left the call
    ld_ret,                   \* NotReturned until the call returns; then None or the catalog
    \* --- BiosAuditor (rom_audit.py 477-674 and the audit over it) ---
    bios_table,               \* the module-level list Libretro_BIOS_list
    bios_core,                \* core_id
    bios_listing,             \* the directory listing: files with size and checksum-engine MD5
    bios_pc,                  \* position inside the audit
    bios_idx,                 \* number of table rows the audit has passed
    bios_report,              \* the rows selected so far, each with its satisfied flag
    \* --- KodiProgressDialog (utils.py 2755-2827) ---
    kpd,                      \* the object: its attributes and the set of the attributes that are bound
    progressDialog,           \* the xbmcgui.DialogProgress behind self.progressDialog
    kpd_last,                 \* the last method call on the object: name, return value, exception
    kpd_calls,                \* number of method calls made
    cancel_seen,              \* a cancel was reported by isCanceled() or seen by close()/endProgress()
    \* --- WizardDialog (utils.py 2516-2560) ---
    wz_chain,                 \* the dialogs, first created first; each is the decoratorDialog of the next
    properties,               \* the dictionary handed to runWizard
    properties_before,        \* its content when runWizard was entered
    wz_pc,                    \* position inside runWizard
    wz_idx,                   \* number of dialogs whose executeDialog has returned True
    wz_trace,                 \* what happened to each dialog visited by the running call
    wz_ret,                   \* return value of runWizard
    wz_runs,                  \* number of runWizard calls made
    \* --- text_limit_string (utils.py 178-181) ---
    lim_string,               \* the argument string
    max_length,               \* the argument max_length
    lim_pc,                   \* "idle" | "call" | "done"
    lim_ret,                  \* the returned string, NoStr before the return
    \* --- File cache (utils.py 711-748) ---
    file_cache,               \* the module-level dict file_cache: directory path -> lower-cased basenames
    fc_last,                  \* the last call: function, directory argument, return value
    fc_calls,                 \* number of calls made
    last_scan,                \* what each directory held when it was last handed to misc_add_file_cache
    \* --- Migration_0_9_9 (migrations/migration_0_9_9.py 23-63) ---
    categories_file,          \* the launchers stored in categories.xml
    launchers,                \* the local dict launchers of execute
    mig_pc,                   \* position inside execute
    mig_visited,              \* keys the loop of execute has visited
    mig_runs,                 \* number of execute calls started
    file_before               \* the launchers categories.xml held when execute was entered

resolverVars == <<nointro_dic, resolver_pc, visit_order, visit_idx, main_pclone_dic,
                  main_clone_to_parent_dic, pclone_results, parents_results>>

xmlVars == <<xml_in, xml_pc, xml_step, data_str, escaped, unescape_arg, xml_out>>

cksVars == <<file_bytes, cks_pc, f_state, f_pos, crc_prev, md5, sha1, crc_digest,
             md5_digest, sha1_digest, size, cks_exc, checksums>>

tempestVars == <<ini_exists, ini_lines, tmp_pc, ini_f, line_no, read_status, games, game,
                 game_key, tmp_exc, tmp_ret>>

multidiscVars == <<ROM_FN, md_pc, tokens, md_index, MultDiscFound, matchObj, tokens_mdisc,
                   MDSet, md_exc, md_ret>>

loaderVars == <<ld_loader, ld_FN, ld_pc, ld_idx, ld_games, games_dic, platforms_dic,
                gameimages_dic, ld_exc, ld_ret>>

biosVars == <<bios_table, bios_core, bios_listing, bios_pc, bios_idx, bios_report>>

dialogVars == <<kpd, progressDialog, kpd_last, kpd_calls, cancel_seen>>

wizardVars == <<wz_chain, properties, properties_before, wz_pc, wz_idx, wz_trace, wz_ret, wz_runs>>

limitVars == <<lim_string, max_length, lim_pc, lim_ret>>

cacheVars == <<file_cache, fc_last, fc_calls, last_scan>>

migrationVars == <<categories_file, launchers, mig_pc, mig_visited, mig_runs, file_before>>

vars ==
    <<resolverVars, xmlVars, cksVars, tempestVars,
      multidiscVars, loaderVars, biosVars, dialogVars,
      wizardVars, limitVars, cacheVars, migrationVars>>

\* "Not set": the value of a local before its assignment and of a result
\* before the call returns.
NoValue == "<none>"

\* A string-valued local or result that is not set.
NoStr == <<NoValue>>

\* The value a call hands back: nothing yet, None, or a dictionary (the
\* dictionary's keys are further fields of the record).
NotReturned == [kind |-> "unset"]
PyNone == [kind |-> "None"]

\* The empty Python dict.
EmptyDict == <<>>

\* ------------------------------------------------------------------------
\* Idle values: the state of a component no call of which is running.
\* ------------------------------------------------------------------------
ResolverIdle ==
    /\ nointro_dic = EmptyDict
    /\ resolver_pc = "idle"
    /\ visit_order = <<>>
    /\ visit_idx = 0
    /\ main_pclone_dic = EmptyDict
    /\ main_clone_to_parent_dic = EmptyDict
    /\ pclone_results = <<>>
    /\ parents_results = <<>>

XmlIdle ==
    /\ xml_in = <<>>
    /\ xml_pc = "idle"
    /\ xml_step = 0
    /\ data_str = <<>>
    /\ escaped = NoStr
    /\ unescape_arg = NoStr
    /\ xml_out = NoStr

CksIdle ==
    /\ file_bytes = <<>>
    /\ cks_pc = "idle"
    /\ f_state = "none"
    /\ f_pos = 0
    /\ crc_prev = NoValue
    /\ md5 = NoValue
    /\ sha1 = NoValue
    /\ crc_digest = NoValue
    /\ md5_digest = NoValue
    /\ sha1_digest = NoValue
    /\ size = NoValue
    /\ cks_exc = ""
    /\ checksums = NotReturned

TempestIdle ==
    /\ ini_exists = FALSE
    /\ ini_lines = <<>>
    /\ tmp_pc = "idle"
    /\ ini_f = "none"
    /\ line_no = 0
    /\ read_status = 0
    /\ games = EmptyDict
    /\ game = NoValue
    /\ game_key = NoStr
    /\ tmp_exc = [type |-> "", at |-> 0, args |-> <<>>]
    /\ tmp_ret = NotReturned

MultidiscIdle ==
    /\ ROM_FN = [base_noext |-> <<>>, ext |-> <<>>]
    /\ md_pc = "idle"
    /\ tokens = <<>>
    /\ md_index = 0
    /\ MultDiscFound = FALSE
    /\ matchObj = NoStr
    /\ tokens_mdisc = <<>>
    /\ MDSet = NoValue
    /\ md_exc = ""
    /\ md_ret = NotReturned

LoaderIdle ==
    /\ ld_loader = "none"
    /\ ld_FN = [cls |-> "none", exists |-> FALSE, read |-> "ok", root |-> <<>>]
    /\ ld_pc = "idle"
    /\ ld_idx = 0
    /\ ld_games = EmptyDict
    /\ games_dic = EmptyDict
    /\ platforms_dic = EmptyDict
    /\ gameimages_dic = EmptyDict
    /\ ld_exc = [type |-> "", at |-> 0, args |-> <<>>]
    /\ ld_ret = NotReturned

BiosIdle ==
    /\ bios_table = <<>>
    /\ bios_core = ""
    /\ bios_listing = {}
    /\ bios_pc = "idle"
    /\ bios_idx = 0
    /\ bios_report = <<>>

DialogIdle ==
    /\ kpd = [bound |-> {}]
    /\ progressDialog = [open |-> FALSE]
    /\ kpd_last = [op |-> ""]
    /\ kpd_calls = 0
    /\ cancel_seen = FALSE

WizardIdle ==
    /\ wz_chain = <<>>
    /\ properties = EmptyDict
    /\ properties_before = EmptyDict
    /\ wz_pc = "idle"
    /\ wz_idx = 0
    /\ wz_trace = <<>>
    /\ wz_ret = NotReturned
    /\ wz_runs = 0

LimitIdle ==
    /\ lim_string = <<>>
    /\ max_length = 0
    /\ lim_pc = "idle"
    /\ lim_ret = NoStr

CacheIdle ==
    /\ file_cache = EmptyDict
    /\ fc_last = [op |-> ""]
    /\ fc_calls = 0
    /\ last_scan = EmptyDict

MigrationIdle ==
    /\ categories_file = EmptyDict
    /\ launchers = EmptyDict
    /\ mig_pc = "idle"
    /\ mig_visited = {}
    /\ mig_runs = 0
    /\ file_before = EmptyDict

\* What a specification of one component fixes for the other components.
ResolverAlone ==
    XmlIdle /\ CksIdle /\ TempestIdle /\ MultidiscIdle
    /\ LoaderIdle /\ BiosIdle /\ DialogIdle /\ WizardIdle
    /\ LimitIdle /\ CacheIdle /\ MigrationIdle
XmlAlone ==
    ResolverIdle /\ CksIdle /\ TempestIdle /\ MultidiscIdle
    /\ LoaderIdle /\ BiosIdle /\ DialogIdle /\ WizardIdle
    /\ LimitIdle /\ CacheIdle /\ MigrationIdle
CksAlone ==
    ResolverIdle /\ XmlIdle /\ TempestIdle /\ MultidiscIdle
    /\ LoaderIdle /\ BiosIdle /\ DialogIdle /\ WizardIdle
    /\ LimitIdle /\ CacheIdle /\ MigrationIdle
TempestAlone ==
    ResolverIdle /\ XmlIdle /\ CksIdle /\ MultidiscIdle
    /\ LoaderIdle /\ BiosIdle /\ DialogIdle /\ WizardIdle
    /\ LimitIdle /\ CacheIdle /\ MigrationIdle
MultidiscAlone ==
    ResolverIdle /\ XmlIdle /\ CksIdle /\ TempestIdle
    /\ LoaderIdle /\ BiosIdle /\ DialogIdle /\ WizardIdle
    /\ LimitIdle /\ CacheIdle /\ MigrationIdle
LoaderAlone ==
    ResolverIdle /\ XmlIdle /\ CksIdle /\ TempestIdle
    /\ MultidiscIdle /\ BiosIdle /\ DialogIdle /\ WizardIdle
    /\ LimitIdle /\ CacheIdle /\ MigrationIdle
BiosAlone ==
    ResolverIdle /\ XmlIdle /\ CksIdle /\ TempestIdle
    /\ MultidiscIdle /\ LoaderIdle /\ DialogIdle /\ WizardIdle
    /\ LimitIdle /\ CacheIdle /\ MigrationIdle
DialogAlone ==
    ResolverIdle /\ XmlIdle /\ CksIdle /\ TempestIdle
    /\ MultidiscIdle /\ LoaderIdle /\ BiosIdle /\ WizardIdle
    /\ LimitIdle /\ CacheIdle /\ MigrationIdle
WizardAlone ==
    ResolverIdle /\ XmlIdle /\ CksIdle /\ TempestIdle
    /\ MultidiscIdle /\ LoaderIdle /\ BiosIdle /\ DialogIdle
    /\ LimitIdle /\ CacheIdle /\ MigrationIdle
LimitAlone ==
    ResolverIdle /\ XmlIdle /\ CksIdle /\ TempestIdle
    /\ MultidiscIdle /\ LoaderIdle /\ BiosIdle /\ DialogIdle
    /\ WizardIdle /\ CacheIdle /\ MigrationIdle
CacheAlone ==
    ResolverIdle /\ XmlIdle /\ CksIdle /\ TempestIdle
    /\ MultidiscIdle /\ LoaderIdle /\ BiosIdle /\ DialogIdle
    /\ WizardIdle /\ LimitIdle /\ MigrationIdle
MigrationAlone ==
    ResolverIdle /\ XmlIdle /\ CksIdle /\ TempestIdle
    /\ MultidiscIdle /\ LoaderIdle /\ BiosIdle /\ DialogIdle
    /\ WizardIdle /\ LimitIdle /\ CacheIdle

\* What the actions of one component leave alone.
ResolverOnly ==
    UNCHANGED <<xmlVars, cksVars, tempestVars, multidiscVars, loaderVars,
                biosVars, dialogVars, wizardVars, limitVars, cacheVars,
                migrationVars>>
XmlOnly ==
    UNCHANGED <<resolverVars, cksVars, tempestVars, multidiscVars, loaderVars,
                biosVars, dialogVars, wizardVars, limitVars, cacheVars,
                migrationVars>>
CksOnly ==
    UNCHANGED <<resolverVars, xmlVars, tempestVars, multidiscVars, loaderVars,
                biosVars, dialogVars, wizardVars, limitVars, cacheVars,
                migrationVars>>
TempestOnly ==
    UNCHANGED <<resolverVars, xmlVars, cksVars, multidiscVars, loaderVars,
                biosVars, dialogVars, wizardVars, limitVars, cacheVars,
                migrationVars>>
MultidiscOnly ==
    UNCHANGED <<resolverVars, xmlVars, cksVars, tempestVars, loaderVars,
                biosVars, dialogVars, wizardVars, limitVars, cacheVars,
                migrationVars>>
LoaderOnly ==
    UNCHANGED <<resolverVars, xmlVars, cksVars, tempestVars, multidiscVars,
                biosVars, dialogVars, wizardVars, limitVars, cacheVars,
                migrationVars>>
BiosOnly ==
    UNCHANGED <<resolverVars, xmlVars, cksVars, tempestVars, multidiscVars,
                loaderVars, dialogVars, wizardVars, limitVars, cacheVars,
                migrationVars>>
DialogOnly ==
    UNCHANGED <<resolverVars, xmlVars, cksVars, tempestVars, multidiscVars,
                loaderVars, biosVars, wizardVars, limitVars, cacheVars,
                migrationVars>>
WizardOnly ==
    UNCHANGED <<resolverVars, xmlVars, cksVars, tempestVars, multidiscVars,
                loaderVars, biosVars, dialogVars, limitVars, cacheVars,
                migrationVars>>
LimitOnly ==
    UNCHANGED <<resolverVars, xmlVars, cksVars, tempestVars, multidiscVars,
                loaderVars, biosVars, dialogVars, wizardVars, cacheVars,
                migrationVars>>
CacheOnly ==
    UNCHANGED <<resolverVars, xmlVars, cksVars, tempestVars, multidiscVars,
                loaderVars, biosVars, dialogVars, wizardVars, limitVars,
                migrationVars>>
MigrationOnly ==
    UNCHANGED <<resolverVars, xmlVars, cksVars, tempestVars, multidiscVars,
                loaderVars, biosVars, dialogVars, wizardVars, limitVars,
                cacheVars>>

\* ------------------------------------------------------------------------
\* Generic helpers
\* ------------------------------------------------------------------------
Range(s) == {s[i] : i \in 1..Len(s)}

\* Number of positions of sequence s holding x (list.count).
Count(s, x) == Cardinality({i \in 1..Len(s) : s[i] = x})

\* All orderings of a finite set, as sequences without repetition.
Permutations_(S) ==
    {p \in [1..Cardinality(S) -> S] : \A i, j \in 1..Cardinality(S) : i # j => p[i] # p[j]}

\* d[k] = v on a Python dict.
DictSet(d, k, v) == [x \in (DOMAIN d) \cup {k} |-> IF x = k THEN v ELSE d[x]]

\* ------------------------------------------------------------------------
\* ParentCloneResolver
\* ------------------------------------------------------------------------
MaxRecords == 3
MaxCalls == 2

NamePool == <<"A", "B", "C", "D", "E">>
RecordNames == {NamePool[i] : i \in 1..MaxRecords}
\* A parent name that is never itself a record (dangling cloneof).
DanglingName == "Z"
CloneofValues == RecordNames \cup {DanglingName, ""}

\* A catalog as the No-Intro loader builds it: a dict keyed by record name.
Catalogs == UNION {[S -> [cloneof : CloneofValues]] : S \in SUBSET RecordNames}

InitResolver ==
    /\ nointro_dic \in Catalogs
    /\ resolver_pc = "idle"
    /\ visit_order = <<>>
    /\ visit_idx = 0
    /\ main_pclone_dic = EmptyDict
    /\ main_clone_to_parent_dic = EmptyDict
    /\ pclone_results = <<>>
    /\ parents_results = <<>>
    /\ ResolverAlone

\* `main_pclone_dic = {}` at the top of audit_make_NoIntro_PClone_dic.
NewPCloneDic_Stale == main_pclone_dic
NewPCloneDic == EmptyDict

\* Body of the loop of audit_make_NoIntro_PClone_dic for one record.
PCloneStep_Overwrite(dic, machine_name, machine) ==
    IF machine.cloneof # ""
    THEN LET parent_name == machine.cloneof
             d1 == IF parent_name \notin DOMAIN dic
                   THEN DictSet(dic, parent_name, <<>>) ELSE dic
         IN  DictSet(d1, parent_name, Append(d1[parent_name], machine_name))
    ELSE DictSet(dic, machine_name, <<>>)

PCloneStep_NoParentKey(dic, machine_name, machine) ==
    IF machine.cloneof # ""
    THEN LET parent_name == machine.cloneof
             d1 == IF parent_name \notin DOMAIN dic
                   THEN DictSet(dic, parent_name, <<>>) ELSE dic
         IN  DictSet(d1, parent_name, Append(d1[parent_name], machine_name))
    ELSE dic

PCloneStep(dic, machine_name, machine) ==
    IF machine.cloneof # ""
    THEN LET parent_name == machine.cloneof
             d1 == IF parent_name \notin DOMAIN dic
                   THEN DictSet(dic, parent_name, <<>>) ELSE dic
         IN  DictSet(d1, parent_name, Append(d1[parent_name], machine_name))
    ELSE IF machine_name \notin DOMAIN dic
         THEN DictSet(dic, machine_name, <<>>) ELSE dic

\* Body of the loop of audit_make_NoIntro_Parents_dic for one record.
ParentsStep_AllRecords(dic, machine_name, machine) ==
    DictSet(dic, machine_name, machine.cloneof)

ParentsStep(dic, machine_name, machine) ==
    IF machine.cloneof # ""
    THEN DictSet(dic, machine_name, machine.cloneof)
    ELSE dic

\* audit_make_NoIntro_PClone_dic(nointro_dic): entry, up to the loop.
CallPClone ==
    /\ resolver_pc = "idle"
    /\ Len(pclone_results) + Len(parents_results) < MaxCalls
    /\ resolver_pc' = "pclone"
    /\ main_pclone_dic' = NewPCloneDic
    /\ visit_order' \in Permutations_(DOMAIN nointro_dic)
    /\ visit_idx' = 0
    /\ UNCHANGED <<nointro_dic, main_clone_to_parent_dic, pclone_results, parents_results>>
    /\ ResolverOnly

\* One iteration of `for machine_name in nointro_dic`.
PCloneVisit ==
    /\ resolver_pc = "pclone"
    /\ visit_idx < Len(visit_order)
    /\ LET machine_name == visit_order[visit_idx + 1]
           machine == nointro_dic[machine_name]
       IN  main_pclone_dic' = PCloneStep(main_pclone_dic, machine_name, machine)
    /\ visit_idx' = visit_idx + 1
    /\ UNCHANGED <<nointro_dic, resolver_pc, visit_order, main_clone_to_parent_dic,
                   pclone_results, parents_results>>
    /\ ResolverOnly

\* `return main_pclone_dic`
PCloneReturn ==
    /\ resolver_pc = "pclone"
    /\ visit_idx = Len(visit_order)
    /\ pclone_results' = Append(pclone_results, main_pclone_dic)
    /\ resolver_pc' = "idle"
    /\ visit_order' = <<>>
    /\ visit_idx' = 0
    /\ UNCHANGED <<nointro_dic, main_pclone_dic, main_clone_to_parent_dic, parents_results>>
    /\ ResolverOnly

\* audit_make_NoIntro_Parents_dic(nointro_dic): entry, up to the loop.
CallParents ==
    /\ resolver_pc = "idle"
    /\ Len(pclone_results) + Len(parents_results) < MaxCalls
    /\ resolver_pc' = "parents"
    /\ main_clone_to_parent_dic' = EmptyDict
    /\ visit_order' \in Permutations_(DOMAIN nointro_dic)
    /\ visit_idx' = 0
    /\ UNCHANGED <<nointro_dic, main_pclone_dic, pclone_results, parents_results>>
    /\ ResolverOnly

ParentsVisit ==
    /\ resolver_pc = "parents"
    /\ visit_idx < Len(visit_order)
    /\ LET machine_name == visit_order[visit_idx + 1]
           machine == nointro_dic[machine_name]
       IN  main_clone_to_parent_dic' =
               ParentsStep(main_clone_to_parent_dic, machine_name, machine)
    /\ visit_idx' = visit_idx + 1
    /\ UNCHANGED <<nointro_dic, resolver_pc, visit_order, main_pclone_dic,
                   pclone_results, parents_results>>
    /\ ResolverOnly

\* `return main_clone_to_parent_dic`
ParentsReturn ==
    /\ resolver_pc = "parents"
    /\ visit_idx = Len(visit_order)
    /\ parents_results' = Append(parents_results, main_clone_to_parent_dic)
    /\ resolver_pc' = "idle"
    /\ visit_order' = <<>>
    /\ visit_idx' = 0
    /\ UNCHANGED <<nointro_dic, main_pclone_dic, main_clone_to_parent_dic, pclone_results>>
    /\ ResolverOnly

NextResolver ==
    \/ CallPClone
    \/ PCloneVisit
    \/ PCloneReturn
    \/ CallParents
    \/ ParentsVisit
    \/ ParentsReturn

SpecResolver == InitResolver /\ [][NextResolver]_vars

\* ------------------------------------------------------------------------
\* Properties of the ParentCloneResolver
\* ------------------------------------------------------------------------
Cloneof(n) == nointro_dic[n].cloneof

\* The clones of parent name p according to the catalog alone.
ClonesOf(p) == {n \in DOMAIN nointro_dic : Cloneof(n) = p}

\* Number of parents whose clone list holds n.
ParentsHolding(g, n) == Cardinality({p \in DOMAIN g : n \in Range(g[p])})

\* Same keys and, under each key, the same clones counted with multiplicity.
SameContent(g1, g2) ==
    /\ DOMAIN g1 = DOMAIN g2
    /\ \A p \in DOMAIN g1 : \A x \in Range(g1[p]) \cup Range(g2[p]) :
           Count(g1[p], x) = Count(g2[p], x)

\* Same keys and the same set of clones under each key.
SameKeysAndCloneSets(g1, g2) ==
    /\ DOMAIN g1 = DOMAIN g2
    /\ \A p \in DOMAIN g1 : Range(g1[p]) = Range(g2[p])

\* C1 as stated: in every returned graph each record name of the catalog is a
\* key of the graph and is held by at most one parent's clone set.
C1_EveryNameIsKey ==
    \A i \in 1..Len(pclone_results) : \A n \in DOMAIN nointro_dic :
        /\ n \in DOMAIN pclone_results[i]
        /\ ParentsHolding(pclone_results[i], n) <= 1

\* C1 amended: in every returned graph a record with empty cloneof is a key;
\* a record with non-empty cloneof occurs exactly once in the clone list kept
\* under its cloneof name and under no other key; a record name is a key
\* exactly when its cloneof is empty or some record names it as cloneof; so no
\* name is held by more than one clone set.
C1_NamesPlaced ==
    \A i \in 1..Len(pclone_results) : \A n \in DOMAIN nointro_dic :
        LET g == pclone_results[i]
        IN  /\ Cloneof(n) = "" => n \in DOMAIN g
            /\ Cloneof(n) # "" => /\ Cloneof(n) \in DOMAIN g
                                  /\ Count(g[Cloneof(n)], n) = 1
            /\ \A p \in DOMAIN g : n \in Range(g[p]) => p = Cloneof(n)
            /\ n \in DOMAIN g <=> (Cloneof(n) = "" \/ ClonesOf(n) # {})
            /\ ParentsHolding(g, n) <= 1

\* A returned graph in which a clone is held by its parent's list and is not
\* a key, next to a clone that is a key because it has a clone of its own.
C1_Witness ==
    \E i \in 1..Len(pclone_results) : \E n, m \in DOMAIN nointro_dic :
        LET g == pclone_results[i]
        IN  /\ Cloneof(n) # "" /\ n \notin DOMAIN g /\ n \in Range(g[Cloneof(n)])
            /\ Cloneof(m) # "" /\ m \in DOMAIN g /\ n \in Range(g[m])

\* C2: the graph does not depend on the visiting order. Any two returned
\* graphs (built under any two orders) have the same keys and the same clone
\* set under each key, and while a call runs every clone visited so far is
\* still in the list under its parent's name: visiting the parent record later
\* never replaced or emptied that list.
C2_OrderIndependent ==
    /\ \A i, j \in 1..Len(pclone_results) :
           SameKeysAndCloneSets(pclone_results[i], pclone_results[j])
    /\ \A i \in 1..Len(pclone_results) : \A p \in DOMAIN pclone_results[i] :
           Range(pclone_results[i][p]) = ClonesOf(p)
    /\ resolver_pc = "pclone" =>
           \A k \in 1..visit_idx :
               LET n == visit_order[k]
               IN  Cloneof(n) # "" =>
                       /\ Cloneof(n) \in DOMAIN main_pclone_dic
                       /\ n \in Range(main_pclone_dic[Cloneof(n)])

\* A running call that visited a clone first and its parent record afterwards,
\* the clone still being in the parent's list.
C2_Witness ==
    /\ resolver_pc = "pclone"
    /\ \E k, j \in 1..visit_idx :
           /\ k < j
           /\ Cloneof(visit_order[j]) = ""
           /\ Cloneof(visit_order[k]) = visit_order[j]
           /\ visit_order[k] \in Range(main_pclone_dic[visit_order[j]])

\* C3: calls are idempotent and pure. No step changes the catalog, and after
\* every step all graphs returned so far have identical content, whatever
\* calls ran in between.
C3_IdempotentPure ==
    [][/\ nointro_dic' = nointro_dic
       /\ \A i, j \in 1..Len(pclone_results') :
              SameContent(pclone_results'[i], pclone_results'[j])]_vars

\* Two graphs returned for a catalog with a parent of two clones, the two
\* calls having listed the clones in different orders.
C3_Witness ==
    /\ Len(pclone_results) = 2
    /\ \E p \in DOMAIN pclone_results[2] :
           /\ Len(pclone_results[2][p]) >= 2
           /\ pclone_results[1][p] # pclone_results[2][p]

\* C4: a returned clone-to-parent map has exactly the records with non-empty
\* cloneof as keys, each mapped to its cloneof, and agrees with every returned
\* parent/clone graph: c maps to p exactly when c is in the list under key p.
C4_ParentsMap ==
    \A i \in 1..Len(parents_results) :
        LET m == parents_results[i]
        IN  /\ DOMAIN m = {n \in DOMAIN nointro_dic : Cloneof(n) # ""}
            /\ \A n \in DOMAIN m : m[n] = Cloneof(n)
            /\ \A j \in 1..Len(pclone_results) :
                   \A c \in RecordNames : \A p \in CloneofValues :
                       (c \in DOMAIN m /\ m[c] = p) <=>
                       (p \in DOMAIN pclone_results[j] /\ c \in Range(pclone_results[j][p]))

\* A returned map and a returned graph for a catalog holding a parent, a
\* clone of it and a clone of a name that is no record.
C4_Witness ==
    /\ Len(parents_results) >= 1
    /\ Len(pclone_results) >= 1
    /\ \E a, b, c \in DOMAIN nointro_dic :
           /\ Cloneof(a) = "" /\ Cloneof(b) = a /\ Cloneof(c) = DanglingName
           /\ parents_results[1][b] = a
           /\ parents_results[1][c] = DanglingName

\* ------------------------------------------------------------------------
\* XML text escaping: text_escape_XML / text_unescape_XML
\* A string is a sequence of characters; LF, CR and TAB name the three
\* control characters.
\* ------------------------------------------------------------------------
MaxAtoms == 2

LF == "LF"
CR == "CR"
TAB == "TAB"

EntQuot == <<"&", "q", "u", "o", "t", ";">>
EntApos == <<"&", "a", "p", "o", "s", ";">>
EntLt == <<"&", "l", "t", ";">>
EntGt == <<"&", "g", "t", ";">>
EntAmp == <<"&", "a", "m", "p", ";">>
EntLF == <<"&", "#", "1", "0", ";">>
EntCR == <<"&", "#", "1", "3", ";">>
EntTAB == <<"&", "#", "9", ";">>

\* The replace() statements of text_escape_XML, in source order: <<old, new>>.
EscapeTable ==
    << <<<<"&">>, EntAmp>>,
       <<<<">">>, EntGt>>,
       <<<<"<">>, EntLt>>,
       <<<<"'">>, EntApos>>,
       <<<<"\"">>, EntQuot>>,
       <<<<LF>>, EntLF>>,
       <<<<CR>>, EntCR>>,
       <<<<TAB>>, EntTAB>> >>

\* The replace() statements of text_unescape_XML, in source order: <<old, new>>.
UnescapeTable ==
    << <<EntQuot, <<"\"">>>>,
       <<EntApos, <<"'">>>>,
       <<EntLt, <<"<">>>>,
       <<EntGt, <<">">>>>,
       <<EntAmp, <<"&">>>>,
       <<EntLF, <<LF>>>>,
       <<EntCR, <<CR>>>>,
       <<EntTAB, <<TAB>>>> >>

\* s[i:].startswith(old)
StartsWithAt(s, i, old) ==
    /\ i + Len(old) - 1 <= Len(s)
    /\ SubSeq(s, i, i + Len(old) - 1) = old

\* Python's str.replace(old, new) for a non-empty old: the non-overlapping
\* occurrences of old, found scanning from the left, are replaced by new.
RECURSIVE ReplaceFrom(_, _, _, _)
ReplaceFrom(s, i, old, new) ==
    IF i > Len(s) THEN <<>>
    ELSE IF StartsWithAt(s, i, old)
         THEN new \o ReplaceFrom(s, i + Len(old), old, new)
         ELSE <<s[i]>> \o ReplaceFrom(s, i + 1, old, new)

StrReplace(s, old, new) == ReplaceFrom(s, 1, old, new)

\* The texts the escaping functions handle: the eight entity texts, the five
\* characters they stand for and the three control characters.
XmlAtoms ==
    {EntQuot, EntApos, EntLt, EntGt, EntAmp, EntLF, EntCR, EntTAB,
     <<"\"">>, <<"'">>, <<"<">>, <<">">>, <<"&">>, <<LF>>, <<CR>>, <<TAB>>}

RECURSIVE AtomStrings(_)
AtomStrings(n) ==
    IF n = 0 THEN {<<>>}
    ELSE AtomStrings(n - 1) \cup {s \o a : s \in AtomStrings(n - 1), a \in XmlAtoms}

XmlInputs == AtomStrings(MaxAtoms)

InitXML ==
    /\ xml_in \in XmlInputs
    /\ xml_pc \in {"escape", "unescape"}
    /\ xml_step = 0
    /\ data_str = xml_in
    /\ escaped = NoStr
    /\ unescape_arg = IF xml_pc = "unescape" THEN xml_in ELSE NoStr
    /\ xml_out = NoStr
    /\ XmlAlone

\* One `data_str = data_str.replace(old, new)` statement of text_escape_XML.
EscapeReplace ==
    /\ xml_pc = "escape"
    /\ xml_step < Len(EscapeTable)
    /\ data_str' = StrReplace(data_str, EscapeTable[xml_step + 1][1],
                              EscapeTable[xml_step + 1][2])
    /\ xml_step' = xml_step + 1
    /\ UNCHANGED <<xml_in, xml_pc, escaped, unescape_arg, xml_out>>
    /\ XmlOnly

\* `return data_str` of text_escape_XML; the caller hands the value to
\* text_unescape_XML.
EscapeReturn ==
    /\ xml_pc = "escape"
    /\ xml_step = Len(EscapeTable)
    /\ escaped' = data_str
    /\ unescape_arg' = data_str
    /\ xml_pc' = "unescape"
    /\ xml_step' = 0
    /\ UNCHANGED <<xml_in, data_str, xml_out>>
    /\ XmlOnly

\* One `data_str = data_str.replace(old, new)` statement of text_unescape_XML.
UnescapeReplace ==
    /\ xml_pc = "unescape"
    /\ xml_step < Len(UnescapeTable)
    /\ data_str' = StrReplace(data_str, UnescapeTable[xml_step + 1][1],
                              UnescapeTable[xml_step + 1][2])
    /\ xml_step' = xml_step + 1
    /\ UNCHANGED <<xml_in, xml_pc, escaped, unescape_arg, xml_out>>
    /\ XmlOnly

\* `return data_str` of text_unescape_XML.
UnescapeReturn ==
    /\ xml_pc = "unescape"
    /\ xml_step = Len(UnescapeTable)
    /\ xml_out' = data_str
    /\ xml_pc' = "done"
    /\ UNCHANGED <<xml_in, xml_step, data_str, escaped, unescape_arg>>
    /\ XmlOnly

NextXML ==
    \/ EscapeReplace
    \/ EscapeReturn
    \/ UnescapeReplace
    \/ UnescapeReturn

SpecXML == InitXML /\ [][NextXML]_vars

\* ------------------------------------------------------------------------
\* Properties of the XML text escaping
\* ------------------------------------------------------------------------
\* The entity texts with the character each stands for.
Entities == {UnescapeTable[k] : k \in 1..Len(UnescapeTable)}

\* Decoding in which every entity of the input is decoded exactly once: one
\* scan from the left, each entity text replaced by its character, the
\* characters produced never read again.
RECURSIVE DecodeOnceFrom(_, _)
DecodeOnceFrom(s, i) ==
    IF i > Len(s) THEN <<>>
    ELSE IF \E e \in Entities : StartsWithAt(s, i, e[1])
         THEN LET e == CHOOSE x \in Entities : StartsWithAt(s, i, x[1])
              IN  e[2] \o DecodeOnceFrom(s, i + Len(e[1]))
         ELSE <<s[i]>> \o DecodeOnceFrom(s, i + 1)

DecodeOnce(s) == DecodeOnceFrom(s, 1)

\* C5: text_unescape_XML(text_escape_XML(s)) = s for every string s built from
\* the handled entity texts, the characters they stand for and the three
\* control characters.
C5_RoundTrip ==
    (xml_pc = "done" /\ escaped # NoStr) => xml_out = xml_in

\* C6: text_unescape_XML decodes every entity of its argument exactly once:
\* the '&' written by the &amp; replacement is not read again by a later
\* replacement, the &amp; replacement being the last one applied.
C6_AmpersandLast ==
    xml_pc = "done" => xml_out = DecodeOnce(unescape_arg)

\* ------------------------------------------------------------------------
\* ChecksumEngine: misc_read_in_chunks / misc_calculate_checksums
\*
\* A Python integer n with -2^31 <= n < 2^32 is the record [hi, lo] standing
\* for n = hi * 65536 + lo with lo in 0..65535, so that 32-bit values stay
\* inside the integers of the model checker.
\* ------------------------------------------------------------------------
MaxFileLen == 2

\* Default of the chunk_size parameter of misc_read_in_chunks.
chunk_size == 8192

\* Byte values the files of the model are made of: 'a', 0x00, 0xFF.
ByteValues == {97, 0, 255}

RECURSIVE ByteStrings(_)
ByteStrings(n) ==
    IF n = 0 THEN {<<>>}
    ELSE ByteStrings(n - 1) \cup {s \o <<b>> : s \in ByteStrings(n - 1), b \in ByteValues}

Files == ByteStrings(MaxFileLen)

Int32(h, l) == [hi |-> h, lo |-> l]

\* Bitwise exclusive or of two naturals below 2^n.
RECURSIVE XorN(_, _, _)
XorN(a, b, n) ==
    IF n = 0 THEN 0
    ELSE ((a + b) % 2) + 2 * XorN(a \div 2, b \div 2, n - 1)

Xor32(x, y) == Int32(XorN(x.hi, y.hi, 16), XorN(x.lo, y.lo, 16))

\* x >> 1 on an unsigned 32-bit value.
Shr1(x) == Int32(x.hi \div 2, (x.lo \div 2) + (x.hi % 2) * 32768)

\* n & 0xFFFFFFFF
Mask32(n) == Int32(n.hi % 65536, n.lo)

\* The unsigned 32-bit value read as a signed one.
ToSigned(w) == IF w.hi >= 32768 THEN Int32(w.hi - 65536, w.lo) ELSE w

\* The reflected CRC-32 polynomial 0xEDB88320 and the value 0xFFFFFFFF.
CrcPoly == Int32(60856, 33568)
AllOnes == Int32(65535, 65535)

RECURSIVE CrcBits(_, _)
CrcBits(c, n) ==
    IF n = 0 THEN c
    ELSE CrcBits(IF c.lo % 2 = 1 THEN Xor32(Shr1(c), CrcPoly) ELSE Shr1(c), n - 1)

\* The register after the bytes data[lo..hi], in order. The range is halved,
\* and the register of the first half is computed before the second half is
\* entered, so that the depth of the evaluation grows with the logarithm of
\* the length.
RECURSIVE CrcRange(_, _, _, _)
CrcRange(c, data, lo, hi) ==
    IF lo > hi THEN c
    ELSE IF lo = hi THEN CrcBits(Xor32(c, Int32(0, data[lo])), 8)
    ELSE LET mid == (lo + hi) \div 2
             left == CrcRange(c, data, lo, mid)
         IN  IF left.lo >= 0 THEN CrcRange(left, data, mid + 1, hi) ELSE left

CrcBytes(c, data, i) == CrcRange(c, data, i, Len(data))

\* zlib.crc32(data, value) of Python 2: the CRC-32 of data continued from the
\* running value, returned as a signed 32-bit integer.
zlib_crc32_NoSeed(data, value) ==
    ToSigned(Xor32(CrcBytes(AllOnes, data, 1), AllOnes))
zlib_crc32(data, value) ==
    ToSigned(Xor32(CrcBytes(Xor32(Mask32(value), AllOnes), data, 1), AllOnes))

HexUpper == <<"0", "1", "2", "3", "4", "5", "6", "7", "8", "9", "A", "B", "C", "D", "E", "F">>
HexLower == <<"0", "1", "2", "3", "4", "5", "6", "7", "8", "9", "a", "b", "c", "d", "e", "f">>

\* The four hexadecimal digits of a natural below 65536.
Hex4(k) ==
    <<HexUpper[(k \div 4096) + 1], HexUpper[((k \div 256) % 16) + 1],
      HexUpper[((k \div 16) % 16) + 1], HexUpper[(k % 16) + 1]>>

RECURSIVE StripZeros(_)
StripZeros(s) == IF Len(s) > 1 /\ s[1] = "0" THEN StripZeros(Tail(s)) ELSE s

Zeros(n) == [i \in 1..n |-> "0"]

\* -n for a negative n.
Negated(n) == IF n.lo = 0 THEN Int32(-n.hi, 0) ELSE Int32(-n.hi - 1, 65536 - n.lo)

\* '{:08X}'.format(n): uppercase hexadecimal, a leading '-' for a negative
\* value, zero-padded after the sign to a minimum width of 8.
Format08X(n) ==
    LET neg == n.hi < 0
        mag == IF neg THEN Negated(n) ELSE n
        digits == StripZeros(Hex4(mag.hi) \o Hex4(mag.lo))
        sign == IF neg THEN <<"-">> ELSE <<>>
        pad == IF Len(sign) + Len(digits) < 8
               THEN Zeros(8 - Len(sign) - Len(digits)) ELSE <<>>
    IN  sign \o pad \o digits

\* The argument of the format call: crc_prev & 0xFFFFFFFF.
CrcFormatArg_NoMask(n) == n
CrcFormatArg(n) == Mask32(n)

\* str.upper() on the characters a digest is made of.
UpperChar(c) ==
    IF \E k \in 1..16 : HexLower[k] = c
    THEN HexUpper[CHOOSE k \in 1..16 : HexLower[k] = c]
    ELSE c

StrUpper_Identity(s) == s
StrUpper(s) == [i \in 1..Len(s) |-> UpperChar(s[i])]

\* hashlib is a library; it is modelled by its contract: hexdigest() is a
\* string of 2 * digest_size lowercase hexadecimal digits that is a function
\* of the bytes fed to the object. The digits are not those of MD5 or SHA-1.
ContentSeed(data) ==
    LET RECURSIVE Sum(_, _)
        Sum(lo, hi) ==
            IF lo > hi THEN 0
            ELSE IF lo = hi THEN (lo * (data[lo] + 7)) % 65521
            ELSE (Sum(lo, (lo + hi) \div 2) + Sum(((lo + hi) \div 2) + 1, hi)) % 65521
    IN  Sum(1, Len(data)) + Len(data)

HexDigest(data, ndigits, salt) ==
    [k \in 1..ndigits |-> HexLower[(((ContentSeed(data) + salt) * k + (k \div 3)) % 16) + 1]]

md5_hexdigest(data) == HexDigest(data, 32, 5)
sha1_hexdigest(data) == HexDigest(data, 40, 11)

\* file_object.read(chunk_size) at position pos.
FileRead(bytes, pos, n) ==
    SubSeq(bytes, pos + 1, IF pos + n < Len(bytes) THEN pos + n ELSE Len(bytes))

\* Where control goes when a statement of the try block raises exception e:
\* the bare `except:` clause takes every exception.
OnException_IOErrorOnly(e) == IF e = "IOError" THEN "except" ELSE "raised"
OnException(e) == "except"

\* State of the handle f when the call exits. misc_calculate_checksums has
\* no f.close(): the handle is released only when the interpreter finalises
\* the unreferenced file object, at once under reference counting and at an
\* unspecified later time otherwise.
HandleAtExit(h) == IF h = "open" THEN {"open", "closed"} ELSE {h}

InitChecksum ==
    /\ file_bytes \in Files
    /\ cks_pc = "call"
    /\ f_state = "none"
    /\ f_pos = 0
    /\ crc_prev = NoValue
    /\ md5 = NoValue
    /\ sha1 = NoValue
    /\ crc_digest = NoValue
    /\ md5_digest = NoValue
    /\ sha1_digest = NoValue
    /\ size = NoValue
    /\ cks_exc = ""
    /\ checksums = NotReturned
    /\ CksAlone

\* f = open(full_file_path, 'rb'); crc_prev = 0; md5 = hashlib.md5();
\* sha1 = hashlib.sha1()
CksOpen ==
    /\ cks_pc = "call"
    /\ f_state' = "open"
    /\ f_pos' = 0
    /\ crc_prev' = Int32(0, 0)
    /\ md5' = <<>>
    /\ sha1' = <<>>
    /\ cks_pc' = "loop"
    /\ UNCHANGED <<file_bytes, crc_digest, md5_digest, sha1_digest, size, cks_exc, checksums>>
    /\ CksOnly

\* open() raises: no handle exists.
CksOpenFail ==
    /\ cks_pc = "call"
    /\ cks_exc' = "IOError"
    /\ cks_pc' = OnException("IOError")
    /\ UNCHANGED <<file_bytes, f_state, f_pos, crc_prev, md5, sha1, crc_digest,
                   md5_digest, sha1_digest, size, checksums>>
    /\ CksOnly

\* One round of `for piece in misc_read_in_chunks(f)`: the generator reads
\* chunk_size bytes; an empty read ends the loop, any other piece is hashed.
CksReadPiece ==
    /\ cks_pc = "loop"
    /\ LET piece == FileRead(file_bytes, f_pos, chunk_size)
       IN  IF piece = <<>>
           THEN /\ cks_pc' = "digests"
                /\ UNCHANGED <<f_pos, crc_prev, md5, sha1>>
           ELSE /\ f_pos' = f_pos + Len(piece)
                /\ crc_prev' = zlib_crc32(piece, crc_prev)
                /\ md5' = md5 \o piece
                /\ sha1' = sha1 \o piece
                /\ cks_pc' = "loop"
    /\ UNCHANGED <<file_bytes, f_state, crc_digest, md5_digest, sha1_digest, size,
                   cks_exc, checksums>>
    /\ CksOnly

\* file_object.read() raises inside the generator.
CksReadFail ==
    /\ cks_pc = "loop"
    /\ cks_exc' = "IOError"
    /\ cks_pc' = OnException("IOError")
    /\ UNCHANGED <<file_bytes, f_state, f_pos, crc_prev, md5, sha1, crc_digest,
                   md5_digest, sha1_digest, size, checksums>>
    /\ CksOnly

\* crc_digest = '{:08X}'.format(crc_prev & 0xFFFFFFFF);
\* md5_digest = md5.hexdigest(); sha1_digest = sha1.hexdigest()
CksDigests ==
    /\ cks_pc = "digests"
    /\ crc_digest' = Format08X(CrcFormatArg(crc_prev))
    /\ md5_digest' = md5_hexdigest(md5)
    /\ sha1_digest' = sha1_hexdigest(sha1)
    /\ cks_pc' = "getsize"
    /\ UNCHANGED <<file_bytes, f_state, f_pos, crc_prev, md5, sha1, size, cks_exc, checksums>>
    /\ CksOnly

\* size = os.path.getsize(full_file_path)
CksGetsize ==
    /\ cks_pc = "getsize"
    /\ size' = Len(file_bytes)
    /\ cks_pc' = "build"
    /\ UNCHANGED <<file_bytes, f_state, f_pos, crc_prev, md5, sha1, crc_digest,
                   md5_digest, sha1_digest, cks_exc, checksums>>
    /\ CksOnly

\* os.path.getsize() raises os.error.
CksGetsizeFail ==
    /\ cks_pc = "getsize"
    /\ cks_exc' = "OSError"
    /\ cks_pc' = OnException("OSError")
    /\ UNCHANGED <<file_bytes, f_state, f_pos, crc_prev, md5, sha1, crc_digest,
                   md5_digest, sha1_digest, size, checksums>>
    /\ CksOnly

\* except: log_debug(...); return None
CksExceptReturn ==
    /\ cks_pc = "except"
    /\ checksums' = PyNone
    /\ f_state' \in HandleAtExit(f_state)
    /\ cks_pc' = "returned"
    /\ UNCHANGED <<file_bytes, f_pos, crc_prev, md5, sha1, crc_digest, md5_digest,
                   sha1_digest, size, cks_exc>>
    /\ CksOnly

\* checksums = {...}; return checksums
CksReturn ==
    /\ cks_pc = "build"
    /\ checksums' = [kind |-> "dict",
                     crc |-> StrUpper(crc_digest),
                     md5 |-> StrUpper(md5_digest),
                     sha1 |-> StrUpper(sha1_digest),
                     size |-> size]
    /\ f_state' \in HandleAtExit(f_state)
    /\ cks_pc' = "returned"
    /\ UNCHANGED <<file_bytes, f_pos, crc_prev, md5, sha1, crc_digest, md5_digest,
                   sha1_digest, size, cks_exc>>
    /\ CksOnly

NextChecksum ==
    \/ CksOpen
    \/ CksOpenFail
    \/ CksReadPiece
    \/ CksReadFail
    \/ CksDigests
    \/ CksGetsize
    \/ CksGetsizeFail
    \/ CksExceptReturn
    \/ CksReturn

SpecChecksum == InitChecksum /\ [][NextChecksum]_vars

\* ------------------------------------------------------------------------
\* Properties of the ChecksumEngine
\* ------------------------------------------------------------------------
HexUpperChars == {HexUpper[k] : k \in 1..16}

IsUpperHex(s, n) == Len(s) = n /\ \A i \in 1..Len(s) : s[i] \in HexUpperChars

DigitValue(c) == (CHOOSE k \in 1..16 : HexUpper[k] = c) - 1

\* The number written by four uppercase hexadecimal digits.
Hex4Value(s) ==
    DigitValue(s[1]) * 4096 + DigitValue(s[2]) * 256 + DigitValue(s[3]) * 16 + DigitValue(s[4])

\* C7: misc_calculate_checksums never raises and never returns a partial
\* result. No exception leaves the call; a call in which opening, reading or
\* sizing failed returns None; a dictionary is returned only when no statement
\* failed and every byte of the file was hashed, and it holds exactly crc,
\* md5, sha1 and size.
C7_NoRaiseNoPartial ==
    /\ cks_pc # "raised"
    /\ cks_pc # "returned" => checksums = NotReturned
    /\ cks_pc = "returned" =>
           /\ checksums.kind \in {"None", "dict"}
           /\ cks_exc # "" => checksums = PyNone
           /\ checksums.kind = "dict" =>
                  /\ cks_exc = ""
                  /\ f_pos = Len(file_bytes)
                  /\ md5 = file_bytes
                  /\ sha1 = file_bytes
                  /\ DOMAIN checksums = {"kind", "crc", "md5", "sha1", "size"}

\* A call that returned None after a read failed behind an already hashed
\* piece, and one that returned None because sizing failed after the digests
\* were formatted.
C7_Witness ==
    /\ cks_pc = "returned"
    /\ checksums = PyNone
    /\ f_pos > 0
    /\ cks_exc \in {"IOError", "OSError"}

\* C9: in a returned dictionary crc is 8 uppercase hexadecimal characters that
\* write the running CRC32 value masked to 32 bits, md5 is 32 and sha1 is 40
\* uppercase hexadecimal characters, and size is the byte length of the file.
C9_DigestFormat ==
    checksums.kind = "dict" =>
        /\ IsUpperHex(checksums.crc, 8)
        /\ Hex4Value(SubSeq(checksums.crc, 1, 4)) = crc_prev.hi % 65536
        /\ Hex4Value(SubSeq(checksums.crc, 5, 8)) = crc_prev.lo
        /\ IsUpperHex(checksums.md5, 32)
        /\ IsUpperHex(checksums.sha1, 40)
        /\ checksums.size = Len(file_bytes)

\* A returned dictionary for a file whose running CRC32 is negative as a
\* signed integer.
C9_Witness ==
    /\ checksums.kind = "dict"
    /\ crc_prev.hi < 0
    /\ Len(file_bytes) > 0

\* ------------------------------------------------------------------------
\* CatalogParser, Tempest INI: audit_load_Tempest_INI
\* A line is the sequence of its characters, without the line terminator.
\* ------------------------------------------------------------------------
MaxLines == 3

\* The if/elif chain on field_name, in source order: <<field name, key of
\* the record that receives the value>>; "" for a field that is passed over.
TempestFields ==
    << <<<<"P", "u", "b", "l", "i", "s", "h", "e", "r">>, "manufacturer">>,
       <<<<"D", "e", "v", "e", "l", "o", "p", "e", "r">>, "dev">>,
       <<<<"R", "e", "l", "e", "a", "s", "e", "d">>, "year">>,
       <<<<"S", "y", "s", "t", "e", "m", "s">>, "">>,
       <<<<"G", "e", "n", "r", "e">>, "genre">>,
       <<<<"P", "e", "r", "s", "p", "e", "c", "t", "i", "v", "e">>, "">>,
       <<<<"S", "c", "o", "r", "e">>, "score">>,
       <<<<"C", "o", "n", "t", "r", "o", "l", "s">>, "">>,
       <<<<"P", "l", "a", "y", "e", "r", "s">>, "player">>,
       <<<<"E", "s", "r", "b">>, "rating">>,
       <<<<"U", "r", "l">>, "">>,
       <<<<"D", "e", "s", "c", "r", "i", "p", "t", "i", "o", "n">>, "story">>,
       <<<<"G", "o", "o", "d", "n", "a", "m", "e">>, "">>,
       <<<<"N", "o", "I", "n", "t", "r", "o">>, "">>,
       <<<<"T", "o", "s", "e", "c">>, "">> >>

\* Lines the files of the model are made of: section headers, a blank line,
\* fields of the chain (stored and passed over), a field outside the chain,
\* a line with two '=', a field with a blank before the '=', a line without
\* '=', and a header with a leading blank.
LinePool ==
    << <<"[", "A", "]">>,
       <<"[", "B", "]">>,
       <<>>,
       <<"P", "u", "b", "l", "i", "s", "h", "e", "r", "=", "P">>,
       <<"G", "e", "n", "r", "e", "=", "G">>,
       <<"S", "y", "s", "t", "e", "m", "s", "=", "S">>,
       <<"F", "o", "o", "=", "x">>,
       <<"S", "c", "o", "r", "e", "=", "9", "=", "1">>,
       <<"G", "e", "n", "r", "e", " ", "=", "G">>,
       <<"z", "z">>,
       <<" ", "[", "A", "]">> >>

TempestLines == {LinePool[k] : k \in 1..Len(LinePool)}

RECURSIVE LineSeqs(_)
LineSeqs(n) ==
    IF n = 0 THEN {<<>>}
    ELSE LineSeqs(n - 1) \cup {s \o <<l>> : s \in LineSeqs(n - 1), l \in TempestLines}

IsSpace(c) == c \in {" ", TAB, LF, CR}

\* str.strip()
RECURSIVE LStrip(_)
LStrip(s) == IF s # <<>> /\ IsSpace(s[1]) THEN LStrip(Tail(s)) ELSE s

RECURSIVE RStrip(_)
RStrip(s) ==
    IF s # <<>> /\ IsSpace(s[Len(s)]) THEN RStrip(SubSeq(s, 1, Len(s) - 1)) ELSE s

StrStrip(s) == RStrip(LStrip(s))

\* str.split(sep) for a one-character sep: the list of the pieces between
\* the separators, empty pieces included.
RECURSIVE SplitFrom(_, _, _, _)
SplitFrom(s, i, sep, cur) ==
    IF i > Len(s) THEN <<cur>>
    ELSE IF s[i] = sep
         THEN <<cur>> \o SplitFrom(s, i + 1, sep, <<>>)
         ELSE SplitFrom(s, i + 1, sep, Append(cur, s[i]))

StrSplit(s, sep) == SplitFrom(s, 1, sep, <<>>)

\* Positions i of s where r'\[([^\]]+)\]' matches: a '[' whose next ']' lies
\* at least two characters further.
NextClose(s, i) ==
    IF \E j \in (i + 1)..Len(s) : s[j] = "]"
    THEN CHOOSE j \in (i + 1)..Len(s) :
             s[j] = "]" /\ \A k \in (i + 1)..(j - 1) : s[k] # "]"
    ELSE 0

SectionStarts(s) == {i \in 1..Len(s) : s[i] = "[" /\ NextClose(s, i) >= i + 2}

\* re.search(r'\[([^\]]+)\]', s): group(1) of the leftmost match, NoStr when
\* there is no match.
SearchSection(s) ==
    IF SectionStarts(s) = {} THEN NoStr
    ELSE LET i == CHOOSE x \in SectionStarts(s) : \A y \in SectionStarts(s) : x <= y
         IN  SubSeq(s, i + 1, NextClose(s, i) - 1)

\* audit_new_rom_GameDB()
audit_new_rom_GameDB ==
    [name |-> <<>>, description |-> <<>>, year |-> <<>>, rating |-> <<>>,
     manufacturer |-> <<>>, genre |-> <<>>, player |-> <<>>, story |-> <<>>]

\* Index in TempestFields of the branch that takes field_name, 0 for the
\* final else.
FieldBranch(field_name) ==
    IF \E k \in 1..Len(TempestFields) : TempestFields[k][1] = field_name
    THEN CHOOSE k \in 1..Len(TempestFields) : TempestFields[k][1] = field_name
    ELSE 0

\* An exception: its type, the source line that raised it and the arguments
\* it was built with.
NoException == [type |-> "", at |-> 0, args |-> <<>>]

InitTempest ==
    /\ ini_exists \in BOOLEAN
    /\ ini_lines \in LineSeqs(MaxLines)
    /\ tmp_pc = "call"
    /\ ini_f = "none"
    /\ line_no = 0
    /\ read_status = 0
    /\ games = EmptyDict
    /\ game = NoValue
    /\ game_key = NoStr
    /\ tmp_exc = NoException
    /\ tmp_ret = NotReturned
    /\ TempestAlone

\* games = {}; read_status = 0; if not file_FN.exists(): return games
TmpCall ==
    /\ tmp_pc = "call"
    /\ games' = EmptyDict
    /\ read_status' = 0
    /\ IF ~ini_exists
       THEN /\ tmp_ret' = [kind |-> "dict", games |-> EmptyDict]
            /\ tmp_pc' = "returned"
       ELSE /\ tmp_pc' = "open"
            /\ UNCHANGED tmp_ret
    /\ UNCHANGED <<ini_exists, ini_lines, ini_f, line_no, game, game_key, tmp_exc>>
    /\ TempestOnly

\* f = open(file_FN.getPath(), 'rt')
TmpOpen ==
    /\ tmp_pc = "open"
    /\ ini_f' = "open"
    /\ line_no' = 0
    /\ tmp_pc' = "loop"
    /\ UNCHANGED <<ini_exists, ini_lines, read_status, games, game, game_key, tmp_exc, tmp_ret>>
    /\ TempestOnly

\* open() raises IOError: the handler formats its message with the name
\* `filename`, which the function never binds, so the handler itself raises
\* NameError before its `return {}`.
TmpOpenFail ==
    /\ tmp_pc = "open"
    /\ tmp_exc' = [type |-> "NameError", at |-> 348, args |-> <<>>]
    /\ tmp_pc' = "raised"
    /\ UNCHANGED <<ini_exists, ini_lines, ini_f, line_no, read_status, games, game,
                   game_key, tmp_ret>>
    /\ TempestOnly

\* One round of `for file_line in f`.
TmpLine ==
    /\ tmp_pc = "loop"
    /\ line_no < Len(ini_lines)
    /\ line_no' = line_no + 1
    /\ LET stripped_line == StrStrip(ini_lines[line_no + 1])
           m == SearchSection(stripped_line)
           line_list == StrSplit(stripped_line, "=")
           branch == FieldBranch(line_list[1])
       IN  IF read_status = 0
           THEN IF m # NoStr
                THEN /\ game' = [audit_new_rom_GameDB EXCEPT !.name = m]
                     /\ game_key' = m
                     /\ read_status' = 1
                     /\ UNCHANGED <<games, tmp_exc, tmp_pc>>
                ELSE UNCHANGED <<game, game_key, read_status, games, tmp_exc, tmp_pc>>
           ELSE IF Len(line_list) = 1
                THEN /\ read_status' = 0
                     /\ games' = DictSet(games, game_key, game)
                     /\ UNCHANGED <<game, game_key, tmp_exc, tmp_pc>>
                ELSE IF branch = 0
                     THEN /\ tmp_exc' = [type |-> "NameError", at |-> 387, args |-> <<>>]
                          /\ tmp_pc' = "raised"
                          /\ UNCHANGED <<game, game_key, read_status, games>>
                     ELSE /\ game' = IF TempestFields[branch][2] = "" THEN game
                                     ELSE DictSet(game, TempestFields[branch][2], line_list[2])
                          /\ UNCHANGED <<game_key, read_status, games, tmp_exc, tmp_pc>>
    /\ UNCHANGED <<ini_exists, ini_lines, ini_f, tmp_ret>>
    /\ TempestOnly

\* Reading the next line raises IOError; nothing in the function catches it.
TmpReadFail ==
    /\ tmp_pc = "loop"
    /\ tmp_exc' = [type |-> "IOError", at |-> 350, args |-> <<"errno", "strerror">>]
    /\ tmp_pc' = "raised"
    /\ UNCHANGED <<ini_exists, ini_lines, ini_f, line_no, read_status, games, game,
                   game_key, tmp_ret>>
    /\ TempestOnly

\* End of file: f.close(); log_info(...); return games
TmpCloseReturn ==
    /\ tmp_pc = "loop"
    /\ line_no = Len(ini_lines)
    /\ ini_f' = "closed"
    /\ tmp_ret' = [kind |-> "dict", games |-> games]
    /\ tmp_pc' = "returned"
    /\ UNCHANGED <<ini_exists, ini_lines, line_no, read_status, games, game, game_key, tmp_exc>>
    /\ TempestOnly

NextTempest ==
    \/ TmpCall
    \/ TmpOpen
    \/ TmpOpenFail
    \/ TmpLine
    \/ TmpReadFail
    \/ TmpCloseReturn

SpecTempest == InitTempest /\ [][NextTempest]_vars

\* ------------------------------------------------------------------------
\* Properties of the file handles
\* ------------------------------------------------------------------------
\* C8: the file handle opened by a checksum call or by a Tempest parse call
\* is closed when the call exits, whether it returns or raises.
C8_HandlesClosed ==
    /\ cks_pc = "returned" => f_state # "open"
    /\ tmp_pc \in {"returned", "raised"} => ini_f # "open"

\* ------------------------------------------------------------------------
\* MultiDiscDetector: text_get_ROM_basename_tokens / text_get_multidisc_info
\* ------------------------------------------------------------------------
MaxPieces == 3

\* Pieces the basenames of the model are concatenated from: a title, a
\* region tag, the disc markers in both conventions and both spellings, a
\* two-digit disc number, a square-bracket tag, the Trurip dash, an opening
\* parenthesis that is never closed, and a braced tag.
PiecePool ==
    << <<"S", "u", "p", "e", "r", " ", "M", "a", "r", "i", "o", " ", "B", "r", "o", "s", " ">>,
       <<"(", "U", "S", "A", ")", " ">>,
       <<"(", "D", "i", "s", "c", " ", "1", " ", "o", "f", " ", "2", ")">>,
       <<"(", "D", "i", "s", "k", " ", "2", " ", "o", "f", " ", "2", ")">>,
       <<"(", "D", "i", "s", "c", " ", "1", ")">>,
       <<"(", "D", "i", "s", "k", " ", "2", ")">>,
       <<"(", "D", "i", "s", "c", " ", "1", "0", ")">>,
       <<"[", "!", "]">>,
       <<"-", " ">>,
       <<"(">>,
       <<"{", "x", "}">> >>

Pieces == {PiecePool[k] : k \in 1..Len(PiecePool)}

RECURSIVE Basenames(_)
Basenames(n) ==
    IF n = 0 THEN {<<>>}
    ELSE Basenames(n - 1) \cup {s \o p : s \in Basenames(n - 1), p \in Pieces}

Extensions == {<<".", "z", "i", "p">>, <<".", "c", "u", "e">>}

\* The methods class NewFileName (bound to the name FileName) defines for
\* the path parts.
FileNameMethods ==
    {"getPath", "getPathNoExt", "getDir", "getBase", "getBaseNoExt", "getExt",
     "changeExtension"}

\* ROM_FN is the record of the parts os.path.splitext gives for its path.
getBaseNoExt(fn) == fn.base_noext
getExt(fn) == fn.ext
getBase(fn) == fn.base_noext \o fn.ext

OpenBrackets == {"[", "(", "{"}

CloseOf(c) == IF c = "[" THEN "]" ELSE IF c = "(" THEN ")" ELSE "}"

\* End of the match of r'\[.+?\]', r'\(.+?\)' or r'\{.+?\}' that starts at
\* position i: the first closing bracket with at least one character before
\* it; 0 when there is none.
BracketEnd(s, i) ==
    IF \E j \in (i + 2)..Len(s) : s[j] = CloseOf(s[i])
    THEN CHOOSE j \in (i + 2)..Len(s) :
             s[j] = CloseOf(s[i]) /\ \A k \in (i + 2)..(j - 1) : s[k] # CloseOf(s[i])
    ELSE 0

\* End of the match of r'[^\[\(\{]+' that starts at position i.
RunEnd(s, i) ==
    CHOOSE j \in i..Len(s) :
        /\ \A k \in i..j : s[k] \notin OpenBrackets
        /\ j = Len(s) \/ s[j + 1] \in OpenBrackets

\* re.findall(reg_exp, basename_str) from position i on: at an opening
\* bracket the bracket alternative of its kind matches lazily up to the first
\* closing bracket, or nothing matches and the scan moves on by one
\* character; elsewhere the fourth alternative takes the maximal run of
\* characters that are no opening bracket.
RECURSIVE FindallFrom(_, _)
FindallFrom(s, i) ==
    IF i > Len(s) THEN <<>>
    ELSE IF s[i] \in OpenBrackets
         THEN IF BracketEnd(s, i) # 0
              THEN <<SubSeq(s, i, BracketEnd(s, i))>> \o FindallFrom(s, BracketEnd(s, i) + 1)
              ELSE FindallFrom(s, i + 1)
         ELSE <<SubSeq(s, i, RunEnd(s, i))>> \o FindallFrom(s, RunEnd(s, i) + 1)

tokens_raw(basename_str) == FindallFrom(basename_str, 1)

tokens_strip(basename_str) ==
    [k \in 1..Len(tokens_raw(basename_str)) |-> StrStrip(tokens_raw(basename_str)[k])]

tokens_clean(basename_str) == SelectSeq(tokens_strip(basename_str), LAMBDA t : t # <<>>)

\* text_get_ROM_basename_tokens(basename_str)
text_get_ROM_basename_tokens(basename_str) ==
    SelectSeq(tokens_clean(basename_str), LAMBDA t : t # <<"-">>)

Digits == {"0", "1", "2", "3", "4", "5", "6", "7", "8", "9"}

\* End of the match of r'[0-9]+' that starts at position i, 0 when s[i] is
\* no digit.
DigitsEnd(s, i) ==
    IF i > Len(s) \/ s[i] \notin Digits THEN 0
    ELSE CHOOSE j \in i..Len(s) :
             /\ \A k \in i..j : s[k] \in Digits
             /\ j = Len(s) \/ s[j + 1] \notin Digits

\* The common prefix r'\(Dis[ck] ' of both marker patterns.
DiscPrefix(t) ==
    /\ Len(t) >= 6
    /\ SubSeq(t, 1, 4) = <<"(", "D", "i", "s">>
    /\ t[5] \in {"c", "k"}
    /\ t[6] = " "

\* re.match(r'\(Dis[ck] ([0-9]+)\)', token): group(1), NoStr for no match.
MatchRedump(t) ==
    IF DiscPrefix(t) /\ DigitsEnd(t, 7) # 0 /\ StartsWithAt(t, DigitsEnd(t, 7) + 1, <<")">>)
    THEN SubSeq(t, 7, DigitsEnd(t, 7))
    ELSE NoStr

\* re.match(r'\(Dis[ck] ([0-9]+) of ([0-9]+)\)', token): group(1), NoStr for
\* no match.
MatchTosec(t) ==
    IF /\ DiscPrefix(t)
       /\ DigitsEnd(t, 7) # 0
       /\ StartsWithAt(t, DigitsEnd(t, 7) + 1, <<" ", "o", "f", " ">>)
       /\ DigitsEnd(t, DigitsEnd(t, 7) + 5) # 0
       /\ StartsWithAt(t, DigitsEnd(t, DigitsEnd(t, 7) + 5) + 1, <<")">>)
    THEN SubSeq(t, 7, DigitsEnd(t, 7))
    ELSE NoStr

DigitOf(c) == CHOOSE d \in 0..9 : HexUpper[d + 1] = c

\* int(s) for a string of decimal digits.
RECURSIVE StrToInt(_)
StrToInt(s) ==
    IF s = <<>> THEN 0
    ELSE StrToInt(SubSeq(s, 1, Len(s) - 1)) * 10 + DigitOf(s[Len(s)])

\* [tokens[x] for x in tokens_nodisc_idx]: the tokens without position index.
WithoutIndex(toks, index) ==
    SubSeq(toks, 1, index - 1) \o SubSeq(toks, index + 1, Len(toks))

\* ' '.join(list)
RECURSIVE JoinSpace(_)
JoinSpace(list) ==
    IF list = <<>> THEN <<>>
    ELSE IF Len(list) = 1 THEN list[1]
         ELSE list[1] \o <<" ">> \o JoinSpace(Tail(list))

\* MultiDiscInfo(ROM_FN) with discName taken without the extension.
MultiDiscInfo_BaseNoExt(fn) ==
    [ROM_FN |-> fn, isMultiDisc |-> FALSE, setName |-> <<>>, discName |-> getBaseNoExt(fn),
     extension |-> getExt(fn), order |-> 0]

\* MultiDiscInfo(ROM_FN)
MultiDiscInfo(fn) ==
    [ROM_FN |-> fn, isMultiDisc |-> FALSE, setName |-> <<>>, discName |-> getBase(fn),
     extension |-> getExt(fn), order |-> 0]

InitMultidisc ==
    /\ ROM_FN \in [base_noext : Basenames(MaxPieces), ext : Extensions]
    /\ md_pc = "call"
    /\ tokens = <<>>
    /\ md_index = 0
    /\ MultDiscFound = FALSE
    /\ matchObj = NoStr
    /\ tokens_mdisc = <<>>
    /\ MDSet = NoValue
    /\ md_exc = ""
    /\ md_ret = NotReturned
    /\ MultidiscAlone

\* MDSet = MultiDiscInfo(ROM_FN);
\* tokens = text_get_ROM_basename_tokens(ROM_FN.getBaseNoExt())
MdCall ==
    /\ md_pc = "call"
    /\ MDSet' = MultiDiscInfo(ROM_FN)
    /\ tokens' = text_get_ROM_basename_tokens(getBaseNoExt(ROM_FN))
    /\ MultDiscFound' = FALSE
    /\ md_index' = 0
    /\ md_pc' = "scan"
    /\ UNCHANGED <<ROM_FN, matchObj, tokens_mdisc, md_exc, md_ret>>
    /\ MultidiscOnly

\* One round of `for index, token in enumerate(tokens)`: the Redump pattern
\* is tried first, then the TOSEC/Trurip pattern; a match ends the loop.
MdScanToken ==
    /\ md_pc = "scan"
    /\ md_index < Len(tokens)
    /\ LET token == tokens[md_index + 1]
       IN  IF MatchRedump(token) # NoStr
           THEN /\ matchObj' = MatchRedump(token)
                /\ tokens_mdisc' = WithoutIndex(tokens, md_index + 1)
                /\ MultDiscFound' = TRUE
                /\ md_pc' = "after_loop"
                /\ UNCHANGED md_index
           ELSE IF MatchTosec(token) # NoStr
                THEN /\ matchObj' = MatchTosec(token)
                     /\ tokens_mdisc' = WithoutIndex(tokens, md_index + 1)
                     /\ MultDiscFound' = TRUE
                     /\ md_pc' = "after_loop"
                     /\ UNCHANGED md_index
                ELSE /\ matchObj' = NoStr
                     /\ md_index' = md_index + 1
                     /\ UNCHANGED <<tokens_mdisc, MultDiscFound, md_pc>>
    /\ UNCHANGED <<ROM_FN, tokens, MDSet, md_exc, md_ret>>
    /\ MultidiscOnly

\* The loop ran out of tokens.
MdLoopEnd ==
    /\ md_pc = "scan"
    /\ md_index = Len(tokens)
    /\ md_pc' = "after_loop"
    /\ UNCHANGED <<ROM_FN, tokens, md_index, MultDiscFound, matchObj, tokens_mdisc, MDSet,
                   md_exc, md_ret>>
    /\ MultidiscOnly

\* if MultDiscFound: the three assignments to MDSet, then the log_debug
\* statements. The first of them calls ROM_FN.getBase_noext() to build its
\* message, whatever the log level; a method the class does not define makes
\* the call raise AttributeError.
MdFound ==
    /\ md_pc = "after_loop"
    /\ MultDiscFound
    /\ MDSet' = [MDSet EXCEPT !.isMultiDisc = TRUE,
                              !.setName = JoinSpace(tokens_mdisc) \o MDSet.extension,
                              !.order = StrToInt(matchObj)]
    /\ IF "getBase_noext" \in FileNameMethods
       THEN /\ md_pc' = "return"
            /\ UNCHANGED md_exc
       ELSE /\ md_pc' = "raised"
            /\ md_exc' = "AttributeError"
    /\ UNCHANGED <<ROM_FN, tokens, md_index, MultDiscFound, matchObj, tokens_mdisc, md_ret>>
    /\ MultidiscOnly

\* return MDSet
MdReturn ==
    /\ \/ md_pc = "return"
       \/ md_pc = "after_loop" /\ ~MultDiscFound
    /\ md_ret' = [kind |-> "MultiDiscInfo", MDSet |-> MDSet]
    /\ md_pc' = "returned"
    /\ UNCHANGED <<ROM_FN, tokens, md_index, MultDiscFound, matchObj, tokens_mdisc, MDSet,
                   md_exc>>
    /\ MultidiscOnly

NextMultidisc ==
    \/ MdCall
    \/ MdScanToken
    \/ MdLoopEnd
    \/ MdFound
    \/ MdReturn

SpecMultidisc == InitMultidisc /\ [][NextMultidisc]_vars

\* ------------------------------------------------------------------------
\* Properties of the MultiDiscDetector
\* ------------------------------------------------------------------------
\* The token reads '(Disc N)', '(Disk N)' or '(Disc N of M)' from its first
\* to its last character.
IsDiscMarker(t) ==
    \/ /\ MatchRedump(t) # NoStr
       /\ Len(t) = DigitsEnd(t, 7) + 1
    \/ /\ MatchTosec(t) # NoStr
       /\ t[5] = "c"
       /\ Len(t) = DigitsEnd(t, DigitsEnd(t, 7) + 5) + 1

\* The N of a marker token.
MarkerN(t) == StrToInt(SubSeq(t, 7, DigitsEnd(t, 7)))

MarkerPositions(toks) == {k \in 1..Len(toks) : IsDiscMarker(toks[k])}

FirstMarker(toks) ==
    CHOOSE k \in MarkerPositions(toks) : \A j \in MarkerPositions(toks) : k <= j

\* C10: for a basename whose cleaned tokens hold a disc marker, the call
\* returns isMultiDisc = true, order = the N of the first marker token and
\* setName = the other tokens in their order joined by single spaces, followed
\* by the extension.
C10_MultiDiscDetected ==
    LET toks == text_get_ROM_basename_tokens(getBaseNoExt(ROM_FN))
    IN  (md_pc \in {"returned", "raised"} /\ MarkerPositions(toks) # {}) =>
            /\ md_ret.kind = "MultiDiscInfo"
            /\ md_ret.MDSet.isMultiDisc = TRUE
            /\ md_ret.MDSet.order = MarkerN(toks[FirstMarker(toks)])
            /\ md_ret.MDSet.setName =
                   JoinSpace(WithoutIndex(toks, FirstMarker(toks))) \o getExt(ROM_FN)

\* The token is matched by one of the two patterns the scan tries.
MatchesScan(t) == MatchRedump(t) # NoStr \/ MatchTosec(t) # NoStr

\* The not-found result: the fields MultiDiscInfo starts with.
NotFoundResult ==
    /\ md_ret.kind = "MultiDiscInfo"
    /\ md_ret.MDSet.isMultiDisc = FALSE
    /\ md_ret.MDSet.setName = <<>>
    /\ md_ret.MDSet.order = 0
    /\ md_ret.MDSet.discName = getBaseNoExt(ROM_FN) \o getExt(ROM_FN)

\* C11 as stated: for a basename none of whose cleaned tokens is a marker
\* '(Disc N)', '(Disk N)' or '(Disc N of M)', the call returns isMultiDisc =
\* false, setName = '', order = 0 and discName = the file basename.
C11_NoMarkerNotMultiDisc ==
    LET toks == text_get_ROM_basename_tokens(getBaseNoExt(ROM_FN))
    IN  (md_pc \in {"returned", "raised"} /\ MarkerPositions(toks) = {}) => NotFoundResult

\* C11 amended: for a basename none of whose cleaned tokens is matched by
\* '(Dis[ck] N)' or '(Dis[ck] N of M)', the call returns isMultiDisc = false,
\* setName = '', order = 0 and discName = the file basename.
C11_NoMatchNotMultiDisc ==
    LET toks == text_get_ROM_basename_tokens(getBaseNoExt(ROM_FN))
    IN  (md_pc \in {"returned", "raised"} /\ \A k \in 1..Len(toks) : ~MatchesScan(toks[k]))
            => NotFoundResult

\* A call that returned for a basename of a title and a region tag, all of
\* whose tokens were scanned without a match.
C11_Witness ==
    /\ md_pc = "returned"
    /\ Len(tokens) >= 2
    /\ md_index = Len(tokens)
    /\ ~MultDiscFound
    /\ \E k \in 1..Len(tokens) : tokens[k] = <<"(", "U", "S", "A", ")">>

\* The tokens of a list put together again, in order.
RECURSIVE Concat(_)
Concat(list) == IF list = <<>> THEN <<>> ELSE Head(list) \o Concat(Tail(list))

\* C12: the raw tokens re.findall gives for the basename, concatenated in
\* order, are the basename: no character is skipped and none duplicated.
C12_TokensReconstruct ==
    md_pc # "call" => Concat(tokens_raw(getBaseNoExt(ROM_FN))) = getBaseNoExt(ROM_FN)

\* ------------------------------------------------------------------------
\* Properties of the Tempest reader
\* ------------------------------------------------------------------------
\* The line the step of the loop reads, as the loop strips it.
CurrentLine == StrStrip(ini_lines[line_no + 1])

\* The whole stripped line is a header '[SectionName]'.
IsHeaderLine(s) ==
    /\ Len(s) >= 3
    /\ s[1] = "["
    /\ s[Len(s)] = "]"
    /\ \A k \in 2..(Len(s) - 1) : s[k] \notin {"[", "]"}

\* A step of the loop that reads one line.
ReadsLine == tmp_pc = "loop" /\ line_no' = line_no + 1

\* C13: in state 1 a line that does not split on '=' into exactly two parts
\* closes the record (stored under its section name, back to state 0) and
\* only a line of exactly two parts is taken as a field line; in state 0 only
\* a '[SectionName]' header starts a record and moves to state 1.
C13_TempestFSM ==
    [][ReadsLine =>
          /\ (read_status = 1 /\ Len(StrSplit(CurrentLine, "=")) # 2) =>
                 /\ read_status' = 0
                 /\ games' = DictSet(games, game_key, game)
                 /\ game' = game
                 /\ tmp_pc' = "loop"
          /\ (read_status = 1 /\ Len(StrSplit(CurrentLine, "=")) = 2) =>
                 /\ games' = games
                 /\ read_status' = 1
          /\ read_status = 0 =>
                 /\ read_status' = 1 <=> IsHeaderLine(CurrentLine)
                 /\ games' = games]_vars

\* The field name of the last line read, for a line with an '='.
LastFieldName == StrSplit(StrStrip(ini_lines[line_no]), "=")[1]

\* The call ended on a field line whose name no branch of the chain takes.
EndedOnUnknownField ==
    /\ tmp_pc \in {"returned", "raised"}
    /\ line_no >= 1
    /\ tmp_exc.at = 387

\* C14: a field line with a name outside the chain ends the call with a
\* fatal error: no catalog is returned, the outcome differs from the
\* non-fatal ones, and the error names the offending field.
C14_UnknownFieldFatal ==
    EndedOnUnknownField =>
        /\ tmp_pc = "raised"
        /\ tmp_ret = NotReturned
        /\ tmp_exc.type # ""
        /\ \E k \in 1..Len(tmp_exc.args) : tmp_exc.args[k] = LastFieldName

\* ------------------------------------------------------------------------
\* CatalogParser, XML loaders: audit_load_LB_metadata_XML,
\* audit_load_OfflineScraper_XML, audit_load_NoIntro_XML_file,
\* audit_load_GameDB_XML, audit_load_HyperList_XML
\* ------------------------------------------------------------------------
MaxElements == 2

\* text_unescape_XML(data_str): the replace() statements of UnescapeTable,
\* one after the other.
RECURSIVE UnescapeSteps(_, _)
UnescapeSteps(s, k) ==
    IF k = 0 THEN s
    ELSE StrReplace(UnescapeSteps(s, k - 1), UnescapeTable[k][1], UnescapeTable[k][2])

text_unescape_XML(s) == UnescapeSteps(s, Len(UnescapeTable))

\* audit_new_rom_logiqx()
audit_new_rom_logiqx ==
    [name |-> <<>>, cloneof |-> <<>>, year |-> <<>>, manufacturer |-> <<>>]

\* audit_new_rom_HyperList()
audit_new_rom_HyperList ==
    [name |-> <<>>, description |-> <<>>, cloneof |-> <<>>, crc |-> <<>>,
     manufacturer |-> <<>>, year |-> <<>>, genre |-> <<>>, rating |-> <<>>,
     enabled |-> <<>>]

\* audit_new_rom_AEL_Offline()
audit_new_rom_AEL_Offline ==
    [name |-> <<>>, description |-> <<>>, cloneof |-> <<>>, source |-> <<>>,
     status |-> <<>>, year |-> <<>>, genre |-> <<>>, manufacturer |-> <<>>,
     nplayers |-> <<>>, rating |-> <<>>, plot |-> <<>>]

\* audit_new_LB_game()
audit_new_LB_game ==
    [Name |-> <<>>, ReleaseYear |-> <<>>, Overview |-> <<>>, MaxPlayers |-> <<>>,
     Cooperative |-> <<>>, VideoURL |-> <<>>, DatabaseID |-> <<>>,
     CommunityRating |-> <<>>, Platform |-> <<>>, Genres |-> <<>>, Publisher |-> <<>>,
     Developer |-> <<>>, ReleaseDate |-> <<>>, ESRB |-> <<>>, WikipediaURL |-> <<>>,
     DOS |-> <<>>, StartupFile |-> <<>>, StartupMD5 |-> <<>>, SetupFile |-> <<>>,
     SetupMD5 |-> <<>>, StartupParameters |-> <<>>]

\* audit_new_LB_platform()
audit_new_LB_platform ==
    [Name |-> <<>>, Emulated |-> <<>>, ReleaseDate |-> <<>>, Developer |-> <<>>,
     Manufacturer |-> <<>>, Cpu |-> <<>>, Memory |-> <<>>, Graphics |-> <<>>,
     Sound |-> <<>>, Display |-> <<>>, Media |-> <<>>, MaxControllers |-> <<>>,
     Notes |-> <<>>, Category |-> <<>>, UseMameFiles |-> <<>>]

\* audit_new_LB_gameImage()
audit_new_LB_gameImage ==
    [DatabaseID |-> <<>>, FileName |-> <<>>, Type |-> <<>>, CRC32 |-> <<>>,
     Region |-> <<>>]

\* An element of the XML tree: its tag, its attributes 'name' and 'cloneof'
\* (NoStr for an attribute the element does not have) and its children as
\* <<tag, text>>.
Element(tag, name, cloneof, children) ==
    [tag |-> tag, attrib |-> [name |-> name, cloneof |-> cloneof], children |-> children]

\* 'a' in element.attrib
HasAttrib(el, a) == el.attrib[a] # NoStr

\* The root children the files of the model are made of: records of the
\* Logiqx-style formats (plain, a clone with a known child whose text holds
\* an entity, one with a child tag no template has, one with an empty name,
\* one without the name attribute), a root tag no loader knows, and the
\* LaunchBox elements (a game, a game with an unknown child, a platform, a
\* game image and a tag the loader passes over).
ElementPool ==
    << Element("game", <<"A">>, NoStr, <<>>),
       Element("game", <<"B">>, <<"A">>, << <<"year", EntAmp>> >>),
       Element("game", <<"C">>, NoStr, << <<"foo", <<"x">>>> >>),
       Element("game", <<>>, NoStr, <<>>),
       Element("game", NoStr, NoStr, <<>>),
       Element("header", NoStr, NoStr, <<>>),
       Element("Game", NoStr, NoStr, << <<"Name", <<"A">>>> >>),
       Element("Game", NoStr, NoStr, << <<"Name", <<"B">>>>, <<"Foo", <<"x">>>> >>),
       Element("Platform", NoStr, NoStr, << <<"Name", <<"P">>>> >>),
       Element("GameImage", NoStr, NoStr, << <<"FileName", <<"F">>>> >>),
       Element("Emulator", NoStr, NoStr, <<>>) >>

XmlElements == {ElementPool[k] : k \in 1..Len(ElementPool)}

RECURSIVE ElementSeqs(_)
ElementSeqs(n) ==
    IF n = 0 THEN {<<>>}
    ELSE ElementSeqs(n - 1) \cup {s \o <<e>> : s \in ElementSeqs(n - 1), e \in XmlElements}

\* The classes of file name objects of utils.py with the methods the loaders
\* call: the FileNameBase classes define all four; NewFileName, the class the
\* name FileName is bound to, defines getPath and binds exists in __init__.
FileNameClasses == {"PythonFileName", "NewFileName"}

ClassMethods(cls) ==
    IF cls = "PythonFileName" THEN {"exists", "getPath", "getOriginalPath", "readXml"}
    ELSE {"exists", "getPath"}

\* The file name objects of the model: the class, whether the file exists,
\* what reading and parsing it gives, and the children of the XML root.
FileNameObjects ==
    {fn \in [cls : FileNameClasses, exists : BOOLEAN,
             read : {"ok", "IOError", "ParseError"}, root : ElementSeqs(MaxElements)] :
        /\ fn.root # <<>> => (fn.exists /\ fn.read = "ok")
        /\ ~fn.exists => fn.read = "ok"}

Loaders == {"LB", "OfflineScraper", "NoIntro", "GameDB", "HyperList"}

\* What the five loaders do around the loop, statement by statement:
\*   missing_bound   the name the 'file does not exist' message is built from
\*                   is bound in the function (LB reads xml_file, which is not)
\*   missing_method  the method that message calls, missing_line its line
\*   verb_method     the method the 'Loading' message calls, verb_line its line
\*   read_line       the line of the readXml() call
\*   catches_IOError there is an `except IOError` next to `except ET.ParseError`
\*   tree_line       the line of `xml_root = xml_tree.getroot()`, a name the
\*                   function never binds; 0 for a loader without the statement
\*   template        the record a 'game' element starts from
LoaderTable ==
    [LB |-> [missing_bound |-> FALSE, missing_method |-> "getOriginalPath",
             missing_line |-> 148, verb_method |-> "getPath", verb_line |-> 152,
             read_line |-> 154, catches_IOError |-> FALSE, tree_line |-> 0,
             template |-> audit_new_LB_game],
     OfflineScraper |->
            [missing_bound |-> TRUE, missing_method |-> "getOriginalPath",
             missing_line |-> 217, verb_method |-> "getOriginalPath", verb_line |-> 221,
             read_line |-> 223, catches_IOError |-> FALSE, tree_line |-> 0,
             template |-> audit_new_rom_logiqx],
     NoIntro |->
            [missing_bound |-> TRUE, missing_method |-> "getPath",
             missing_line |-> 265, verb_method |-> "getOriginalPath", verb_line |-> 269,
             read_line |-> 271, catches_IOError |-> TRUE, tree_line |-> 279,
             template |-> audit_new_rom_logiqx],
     GameDB |->
            [missing_bound |-> TRUE, missing_method |-> "getPath",
             missing_line |-> 297, verb_method |-> "getPath", verb_line |-> 299,
             read_line |-> 301, catches_IOError |-> FALSE, tree_line |-> 306,
             template |-> audit_new_rom_GameDB],
     HyperList |->
            [missing_bound |-> TRUE, missing_method |-> "getPath",
             missing_line |-> 401, verb_method |-> "getPath", verb_line |-> 403,
             read_line |-> 405, catches_IOError |-> TRUE, tree_line |-> 0,
             template |-> audit_new_rom_HyperList]]

Raised(type, at) == [type |-> type, at |-> at, args |-> <<>>]

\* What a `return` of the loader hands back: the LaunchBox loader returns
\* nothing (None), the others their local catalog.
LoaderResult(loader, catalog) ==
    IF loader = "LB" THEN PyNone ELSE [kind |-> "dict", games |-> catalog]

\* `for game_child in game_element: ... game[xml_tag] = xml_text`: every
\* child sets the key of its tag to its unescaped text.
RECURSIVE SetChildren(_, _)
SetChildren(rec, children) ==
    IF children = <<>> THEN rec
    ELSE SetChildren(DictSet(rec, children[1][1], text_unescape_XML(children[1][2])),
                     Tail(children))

\* The local catalog after one 'game' element in audit_load_OfflineScraper_XML,
\* audit_load_GameDB_XML and audit_load_HyperList_XML: the template with the
\* name attribute, then the children, stored under game['name'].
GameElement(catalog, template, el) ==
    LET game_rec == SetChildren([template EXCEPT !.name = el.attrib.name], el.children)
    IN  DictSet(catalog, game_rec.name, game_rec)

\* The local catalog after one 'game' element in audit_load_NoIntro_XML_file.
NoIntroElement(catalog, el) ==
    LET named == [audit_new_rom_logiqx EXCEPT !.name = el.attrib.name]
        nointro_rom == IF HasAttrib(el, "cloneof")
                       THEN [named EXCEPT !.cloneof = el.attrib.cloneof]
                       ELSE named
    IN  DictSet(catalog, el.attrib.name, nointro_rom)

\* `if xml_tag not in game: ... return` hits for one of the children.
HasUnknownChild(template, children) ==
    \E k \in 1..Len(children) : children[k][1] \notin DOMAIN template

\* One of the caller's dictionaries after a LaunchBox element all of whose
\* children the template knows: the record is stored under the key field.
LBElement(dic, template, key_field, el) ==
    LET rec == SetChildren(template, el.children)
    IN  DictSet(dic, rec[key_field], rec)

\* The root tags audit_load_LB_metadata_XML passes over.
LBPassTags == {"PlatformAlternateName", "Emulator", "EmulatorPlatform", "GameAlternateName"}

\* The root tags audit_load_LB_metadata_XML loads: <<tag, template, key field>>.
LBRecordTags ==
    << <<"Game", audit_new_LB_game, "Name">>,
       <<"Platform", audit_new_LB_platform, "Name">>,
       <<"GameImage", audit_new_LB_gameImage, "FileName">> >>

InitLoaders ==
    /\ ld_loader \in Loaders
    /\ ld_FN \in FileNameObjects
    /\ ld_pc = "call"
    /\ ld_idx = 0
    /\ ld_games = EmptyDict
    /\ games_dic = EmptyDict
    /\ platforms_dic = EmptyDict
    /\ gameimages_dic = EmptyDict
    /\ ld_exc = NoException
    /\ ld_ret = NotReturned
    /\ LoaderAlone

\* Entry of a loader: the local catalog and the `if not xml_FN.exists()`
\* branch, whose message is built before the return.
LdCall ==
    /\ ld_pc = "call"
    /\ ld_games' = EmptyDict
    /\ LET t == LoaderTable[ld_loader]
       IN  IF ld_FN.exists
           THEN /\ ld_pc' = "read"
                /\ UNCHANGED <<ld_exc, ld_ret>>
           ELSE IF ~t.missing_bound
                THEN /\ ld_exc' = Raised("NameError", t.missing_line)
                     /\ ld_pc' = "raised"
                     /\ UNCHANGED ld_ret
                ELSE IF t.missing_method \notin ClassMethods(ld_FN.cls)
                     THEN /\ ld_exc' = Raised("AttributeError", t.missing_line)
                          /\ ld_pc' = "raised"
                          /\ UNCHANGED ld_ret
                     ELSE /\ ld_ret' = LoaderResult(ld_loader, EmptyDict)
                          /\ ld_pc' = "returned"
                          /\ UNCHANGED ld_exc
    /\ UNCHANGED <<ld_loader, ld_FN, ld_idx, games_dic, platforms_dic, gameimages_dic>>
    /\ LoaderOnly

\* The 'Loading' message, the try block around readXml() with its except
\* clauses, and the statement between the try block and the loop.
LdRead ==
    /\ ld_pc = "read"
    /\ LET t == LoaderTable[ld_loader]
       IN  IF t.verb_method \notin ClassMethods(ld_FN.cls)
           THEN /\ ld_exc' = Raised("AttributeError", t.verb_line)
                /\ ld_pc' = "raised"
                /\ UNCHANGED ld_ret
           ELSE IF "readXml" \notin ClassMethods(ld_FN.cls)
           THEN /\ ld_exc' = Raised("AttributeError", t.read_line)
                /\ ld_pc' = "raised"
                /\ UNCHANGED ld_ret
           ELSE IF ld_FN.read = "ParseError" \/ (ld_FN.read = "IOError" /\ t.catches_IOError)
           THEN /\ ld_ret' = LoaderResult(ld_loader, ld_games)
                /\ ld_pc' = "returned"
                /\ UNCHANGED ld_exc
           ELSE IF ld_FN.read = "IOError"
           THEN /\ ld_exc' = [type |-> "IOError", at |-> t.read_line,
                              args |-> <<"errno", "strerror">>]
                /\ ld_pc' = "raised"
                /\ UNCHANGED ld_ret
           ELSE IF t.tree_line # 0
           THEN /\ ld_exc' = Raised("NameError", t.tree_line)
                /\ ld_pc' = "raised"
                /\ UNCHANGED ld_ret
           ELSE /\ ld_pc' = "loop"
                /\ UNCHANGED <<ld_exc, ld_ret>>
    /\ UNCHANGED <<ld_loader, ld_FN, ld_idx, ld_games, games_dic, platforms_dic,
                   gameimages_dic>>
    /\ LoaderOnly

\* Index in LBRecordTags of the branch for the tag, 0 when it has none.
LBBranch(tag) ==
    IF \E k \in 1..Len(LBRecordTags) : LBRecordTags[k][1] = tag
    THEN CHOOSE k \in 1..Len(LBRecordTags) : LBRecordTags[k][1] = tag
    ELSE 0

\* One round of `for xml_element in xml_root` of audit_load_LB_metadata_XML:
\* a record element with a child outside its template, and a root tag the
\* chain does not name, end the call with `return`.
LdElementLB ==
    /\ ld_pc = "loop"
    /\ ld_loader = "LB"
    /\ ld_idx < Len(ld_FN.root)
    /\ LET el == ld_FN.root[ld_idx + 1]
           b == LBBranch(el.tag)
       IN  IF b # 0
           THEN IF HasUnknownChild(LBRecordTags[b][2], el.children)
                THEN /\ ld_ret' = PyNone
                     /\ ld_pc' = "returned"
                     /\ UNCHANGED <<ld_idx, games_dic, platforms_dic, gameimages_dic>>
                ELSE /\ games_dic' =
                            IF b = 1 THEN LBElement(games_dic, audit_new_LB_game, "Name", el)
                            ELSE games_dic
                     /\ platforms_dic' =
                            IF b = 2
                            THEN LBElement(platforms_dic, audit_new_LB_platform, "Name", el)
                            ELSE platforms_dic
                     /\ gameimages_dic' =
                            IF b = 3
                            THEN LBElement(gameimages_dic, audit_new_LB_gameImage,
                                           "FileName", el)
                            ELSE gameimages_dic
                     /\ ld_idx' = ld_idx + 1
                     /\ UNCHANGED <<ld_ret, ld_pc>>
           ELSE IF el.tag \in LBPassTags
                THEN /\ ld_idx' = ld_idx + 1
                     /\ UNCHANGED <<ld_ret, ld_pc, games_dic, platforms_dic, gameimages_dic>>
                ELSE /\ ld_ret' = PyNone
                     /\ ld_pc' = "returned"
                     /\ UNCHANGED <<ld_idx, games_dic, platforms_dic, gameimages_dic>>
    /\ UNCHANGED <<ld_loader, ld_FN, ld_games, ld_exc>>
    /\ LoaderOnly

\* The line of `... = element.attrib['name']` in each Logiqx-style loader.
NameAttribLine == [OfflineScraper |-> 237, NoIntro |-> 283, GameDB |-> 316, HyperList |-> 422]

\* One round of `for game_element in xml_root` of the Logiqx-style loaders:
\* a 'game' element is loaded (KeyError when it has no name attribute), any
\* other root tag is passed over.
LdElementGame ==
    /\ ld_pc = "loop"
    /\ ld_loader # "LB"
    /\ ld_idx < Len(ld_FN.root)
    /\ LET el == ld_FN.root[ld_idx + 1]
       IN  IF el.tag # "game"
           THEN /\ ld_idx' = ld_idx + 1
                /\ UNCHANGED <<ld_games, ld_exc, ld_pc>>
           ELSE IF ~HasAttrib(el, "name")
                THEN /\ ld_exc' = [type |-> "KeyError", at |-> NameAttribLine[ld_loader],
                                   args |-> <<"name">>]
                     /\ ld_pc' = "raised"
                     /\ UNCHANGED <<ld_games, ld_idx>>
                ELSE /\ ld_games' =
                            IF ld_loader = "NoIntro" THEN NoIntroElement(ld_games, el)
                            ELSE GameElement(ld_games, LoaderTable[ld_loader].template, el)
                     /\ ld_idx' = ld_idx + 1
                     /\ UNCHANGED <<ld_exc, ld_pc>>
    /\ UNCHANGED <<ld_loader, ld_FN, games_dic, platforms_dic, gameimages_dic, ld_ret>>
    /\ LoaderOnly

\* The loop ran out of elements: `return games`; the LaunchBox loader logs
\* the sizes of the dictionaries and falls off its end.
LdReturn ==
    /\ ld_pc = "loop"
    /\ ld_idx = Len(ld_FN.root)
    /\ ld_ret' = LoaderResult(ld_loader, ld_games)
    /\ ld_pc' = "returned"
    /\ UNCHANGED <<ld_loader, ld_FN, ld_idx, ld_games, games_dic, platforms_dic,
                   gameimages_dic, ld_exc>>
    /\ LoaderOnly

NextLoaders ==
    \/ LdCall
    \/ LdRead
    \/ LdElementLB
    \/ LdElementGame
    \/ LdReturn

SpecLoaders == InitLoaders /\ [][NextLoaders]_vars

\* ------------------------------------------------------------------------
\* Properties of the catalog loaders
\* ------------------------------------------------------------------------
LoaderEnded == ld_pc \in {"returned", "raised"}

\* The source file is missing, or reading or parsing it fails.
SourceUnusable == ~ld_FN.exists \/ ld_FN.read # "ok"

\* The call returned an empty catalog; for the LaunchBox loader, it returned
\* with the three dictionaries as they were handed in.
ReturnedEmpty ==
    /\ ld_pc = "returned"
    /\ ld_loader = "LB" =>
           /\ games_dic = EmptyDict
           /\ platforms_dic = EmptyDict
           /\ gameimages_dic = EmptyDict
    /\ ld_loader # "LB" =>
           /\ ld_ret.kind = "dict"
           /\ ld_ret.games = EmptyDict

\* C15: a loader whose source file does not exist or cannot be opened or
\* parsed returns an empty catalog (the LaunchBox loader: returns with its
\* three dictionaries unchanged) and does not raise.
C15_LoadersRecover ==
    /\ (LoaderEnded /\ SourceUnusable) => ReturnedEmpty
    /\ (tmp_pc \in {"returned", "raised"} /\ ini_f = "none") =>
           /\ tmp_pc = "returned"
           /\ tmp_ret.kind = "dict"
           /\ tmp_ret.games = EmptyDict

\* The template the loader starts the records of a root element from; the
\* empty record for a tag the loader loads no record from.
TemplateFor(loader, tag) ==
    IF loader = "LB"
    THEN IF LBBranch(tag) # 0 THEN LBRecordTags[LBBranch(tag)][2] ELSE <<>>
    ELSE IF tag = "game" THEN LoaderTable[loader].template ELSE <<>>

IsRecordElement(loader, el) ==
    IF loader = "LB" THEN LBBranch(el.tag) # 0 ELSE el.tag = "game"

\* The record element has a child whose tag is not in its format's fields.
IsOffending(loader, el) ==
    /\ IsRecordElement(loader, el)
    /\ HasUnknownChild(TemplateFor(loader, el.tag), el.children)

OffendingPositions == {k \in 1..Len(ld_FN.root) : IsOffending(ld_loader, ld_FN.root[k])}

FirstOffending == CHOOSE k \in OffendingPositions : \A j \in OffendingPositions : k <= j

\* The catalogs a returned call leaves: the caller's three dictionaries for
\* the LaunchBox loader, the returned catalog for the others.
ResultCatalogs ==
    IF ld_loader = "LB" THEN {games_dic, platforms_dic, gameimages_dic}
    ELSE {ld_ret.games}

\* The field that holds the key of a record.
KeyField(rec) ==
    IF "name" \in DOMAIN rec THEN "name"
    ELSE IF "FileName" \in DOMAIN rec THEN "FileName" ELSE "Name"

\* The templates of the loader.
TemplatesOf(loader) ==
    IF loader = "LB" THEN {audit_new_LB_game, audit_new_LB_platform, audit_new_LB_gameImage}
    ELSE {LoaderTable[loader].template}

\* The key under which the loader stores the record of element el.
StoredKey(loader, el) ==
    IF loader = "LB"
    THEN SetChildren(TemplateFor(loader, el.tag), el.children)[LBRecordTags[LBBranch(el.tag)][3]]
    ELSE el.attrib.name

\* The result catalog the record of element el belongs in.
CatalogFor(loader, el) ==
    IF loader # "LB" THEN ld_ret.games
    ELSE IF LBBranch(el.tag) = 1 THEN games_dic
         ELSE IF LBBranch(el.tag) = 2 THEN platforms_dic ELSE gameimages_dic

RecognizedRootTags(loader) ==
    IF loader = "LB" THEN LBPassTags \cup {LBRecordTags[k][1] : k \in 1..Len(LBRecordTags)}
    ELSE {"game"}

\* C16: when a record element has a child tag outside its format's field
\* list, parsing of the remaining file stops: the loop passes neither the
\* offending element nor any later one, the result holds no record with a
\* key outside the format's fields, and the records of the elements before
\* the offending one are in the result.
C16_UnknownChildStops ==
    (ld_pc = "returned" /\ OffendingPositions # {}) =>
        /\ ld_idx < FirstOffending
        /\ \A cat \in ResultCatalogs : \A k \in DOMAIN cat :
               \E t \in TemplatesOf(ld_loader) : DOMAIN cat[k] = DOMAIN t
        /\ (\A k \in 1..(FirstOffending - 1) :
                ld_FN.root[k].tag \in RecognizedRootTags(ld_loader)) =>
               \A k \in 1..(FirstOffending - 1) :
                   IsRecordElement(ld_loader, ld_FN.root[k]) =>
                       StoredKey(ld_loader, ld_FN.root[k])
                           \in DOMAIN CatalogFor(ld_loader, ld_FN.root[k])

\* C17: a root element with a tag the loader does not recognize is skipped
\* and parsing goes on: in a file without a record that ends the parse, the
\* loop passes every element and every record element is in the result.
C17_UnknownRootSkipped ==
    (/\ ld_pc = "returned"
     /\ ld_FN.exists /\ ld_FN.read = "ok"
     /\ OffendingPositions = {}
     /\ \E k \in 1..Len(ld_FN.root) : ld_FN.root[k].tag \notin RecognizedRootTags(ld_loader))
    =>  /\ ld_idx = Len(ld_FN.root)
        /\ \A k \in 1..Len(ld_FN.root) :
               IsRecordElement(ld_loader, ld_FN.root[k]) =>
                   StoredKey(ld_loader, ld_FN.root[k])
                       \in DOMAIN CatalogFor(ld_loader, ld_FN.root[k])

\* C18: every record of a returned catalog has exactly the keys of its
\* format's template.
C18_TemplateKeys ==
    /\ ld_pc = "returned" =>
           \A cat \in ResultCatalogs : \A k \in DOMAIN cat :
               \E t \in TemplatesOf(ld_loader) : DOMAIN cat[k] = DOMAIN t
    /\ (tmp_pc = "returned") =>
           \A k \in DOMAIN tmp_ret.games :
               DOMAIN tmp_ret.games[k] = DOMAIN audit_new_rom_GameDB

\* C19: in a returned catalog every key is the name of the record stored
\* under it and no name is empty (so no two records share a name).
C19_NamesAreKeys ==
    /\ ld_pc = "returned" =>
           \A cat \in ResultCatalogs : \A k \in DOMAIN cat :
               /\ cat[k][KeyField(cat[k])] = k
               /\ k # <<>>
    /\ tmp_pc = "returned" =>
           \A k \in DOMAIN tmp_ret.games :
               /\ tmp_ret.games[k].name = k
               /\ k # <<>>

\* ------------------------------------------------------------------------
\* BiosAuditor: Libretro_BIOS_list and the audit of a directory against it
\* ------------------------------------------------------------------------
MaxFiles == 2

\* Libretro_BIOS_list, row by row in source order; md5 is the string of the
\* source, character by character.
Libretro_BIOS_list ==
    <<
       [filename |-> "5200.rom", size |-> 2048,
        md5 |-> <<"2", "8", "1", "f", "2", "0", "e", "a", "4", "3", "2", "0", "4", "0", "4", "e",
               "c", "8", "2", "0", "f", "b", "7", "e", "c", "0", "6", "9", "3", "b", "3", "8">>,
        mandatory |-> TRUE, cores |-> <<"atari800">>],
       [filename |-> "7800 BIOS (E).rom", size |-> 16384,
        md5 |-> <<"3", "9", "7", "b", "b", "5", "6", "6", "5", "8", "4", "b", "e", "7", "b", "9",
               "7", "6", "4", "e", "7", "a", "6", "8", "9", "7", "4", "c", "4", "2", "6", "3">>,
        mandatory |-> TRUE, cores |-> <<"prosystem">>],
       [filename |-> "7800 BIOS (U).rom", size |-> 4096,
        md5 |-> <<"0", "7", "6", "3", "f", "1", "f", "f", "b", "0", "0", "6", "d", "d", "b", "e",
               "3", "2", "e", "5", "2", "d", "4", "9", "7", "e", "e", "8", "4", "8", "a", "e">>,
        mandatory |-> TRUE, cores |-> <<"prosystem">>],
       [filename |-> "lynxboot.img", size |-> 512,
        md5 |-> <<"f", "c", "d", "4", "0", "3", "d", "b", "6", "9", "f", "5", "4", "2", "9", "0",
               "b", "5", "1", "0", "3", "5", "d", "8", "2", "f", "8", "3", "5", "e", "7", "b">>,
        mandatory |-> TRUE, cores |-> <<"mednafen_lynx", "handy">>],
       [filename |-> "o2rom.bin", size |-> 1024,
        md5 |-> <<"5", "6", "2", "d", "5", "e", "b", "f", "9", "e", "0", "3", "0", "a", "4", "0",
               "d", "6", "f", "a", "b", "f", "c", "2", "f", "3", "3", "1", "3", "9", "f", "d">>,
        mandatory |-> TRUE, cores |-> <<"o2em">>],
       [filename |-> "MSX.ROM", size |-> 32768,
        md5 |-> <<"a", "a", "9", "5", "a", "e", "a", "2", "5", "6", "3", "c", "d", "5", "e", "c",
               "0", "a", "0", "9", "1", "9", "b", "4", "4", "c", "c", "1", "7", "d", "4", "7">>,
        mandatory |-> TRUE, cores |-> <<"fmsx">>],
       [filename |-> "MSX2.ROM", size |-> 32768,
        md5 |-> <<"e", "c", "3", "a", "0", "1", "c", "9", "1", "f", "2", "4", "f", "b", "d", "d",
               "c", "b", "c", "a", "b", "0", "a", "d", "3", "0", "1", "b", "c", "9", "e", "f">>,
        mandatory |-> TRUE, cores |-> <<"fmsx">>],
       [filename |-> "MSX2EXT.ROM", size |-> 16384,
        md5 |-> <<"2", "1", "8", "3", "c", "2", "a", "f", "f", "1", "7", "c", "f", "4", "2", "9",
               "7", "b", "d", "b", "4", "9", "6", "d", "e", "7", "8", "c", "2", "e", "8", "a">>,
        mandatory |-> TRUE, cores |-> <<"fmsx">>],
       [filename |-> "MSX2P.ROM", size |-> 32768,
        md5 |-> <<"6", "d", "8", "c", "0", "c", "a", "6", "4", "e", "7", "2", "6", "c", "8", "2",
               "a", "4", "b", "7", "2", "6", "e", "9", "b", "0", "1", "c", "d", "f", "1", "e">>,
        mandatory |-> TRUE, cores |-> <<"fmsx">>],
       [filename |-> "MSX2PEXT.ROM", size |-> 16384,
        md5 |-> <<"7", "c", "8", "2", "4", "3", "c", "7", "1", "d", "8", "f", "1", "4", "3", "b",
               "2", "5", "3", "1", "f", "0", "1", "a", "f", "a", "6", "a", "0", "5", "d", "c">>,
        mandatory |-> TRUE, cores |-> <<"fmsx">>],
       [filename |-> "syscard3.pce", size |-> 262144,
        md5 |-> <<"3", "8", "1", "7", "9", "d", "f", "8", "f", "4", "a", "c", "8", "7", "0", "0",
               "1", "7", "d", "b", "2", "1", "e", "b", "c", "b", "f", "5", "3", "1", "1", "4">>,
        mandatory |-> TRUE, cores |-> <<"mednafen_pce_fast", "mednafen_supergrafx">>],
       [filename |-> "gecard.pce", size |-> 32768,
        md5 |-> <<"6", "d", "2", "c", "b", "1", "4", "f", "c", "3", "e", "1", "f", "6", "5", "c",
               "e", "b", "1", "3", "5", "6", "3", "3", "d", "1", "6", "9", "4", "1", "2", "2">>,
        mandatory |-> TRUE, cores |-> <<>>],
       [filename |-> "pcfx.rom", size |-> 1048576,
        md5 |-> <<"0", "8", "e", "3", "6", "e", "d", "b", "e", "a", "2", "8", "a", "0", "1", "7",
               "f", "7", "9", "f", "8", "d", "4", "f", "7", "f", "f", "9", "b", "6", "d", "7">>,
        mandatory |-> TRUE, cores |-> <<"mednafen_pcfx">>],
       [filename |-> "fx-scsi.rom", size |-> 524288,
        md5 |-> <<"4", "3", "0", "e", "9", "7", "4", "5", "f", "9", "2", "3", "5", "c", "5", "1",
               "5", "b", "c", "8", "e", "6", "5", "2", "d", "6", "c", "a", "3", "0", "0", "4">>,
        mandatory |-> TRUE, cores |-> <<>>],
       [filename |-> "pcfxbios.bin", size |-> 1048576,
        md5 |-> <<"0", "8", "e", "3", "6", "e", "d", "b", "e", "a", "2", "8", "a", "0", "1", "7",
               "f", "7", "9", "f", "8", "d", "4", "f", "7", "f", "f", "9", "b", "6", "d", "7">>,
        mandatory |-> TRUE, cores |-> <<>>],
       [filename |-> "pcfxv101.bin", size |-> 1048576,
        md5 |-> <<"e", "2", "f", "b", "7", "c", "7", "2", "2", "0", "e", "3", "a", "7", "8", "3",
               "8", "c", "2", "d", "d", "7", "e", "4", "0", "1", "a", "7", "f", "3", "d", "8">>,
        mandatory |-> TRUE, cores |-> <<>>],
       [filename |-> "pcfxga.rom", size |-> 1048576,
        md5 |-> <<"5", "8", "8", "5", "b", "c", "9", "a", "6", "4", "b", "f", "8", "0", "d", "4",
               "5", "3", "0", "b", "9", "b", "9", "b", "9", "7", "8", "f", "f", "5", "8", "7">>,
        mandatory |-> TRUE, cores |-> <<>>],
       [filename |-> "disksys.rom", size |-> 8192,
        md5 |-> <<"c", "a", "3", "0", "b", "5", "0", "f", "8", "8", "0", "e", "b", "6", "6", "0",
               "a", "3", "2", "0", "6", "7", "4", "e", "d", "3", "6", "5", "e", "f", "7", "a">>,
        mandatory |-> TRUE, cores |-> <<"fceumm", "nestopia">>],
       [filename |-> "gc-ntsc-10.bin", size |-> 2097152,
        md5 |-> <<"f", "c", "9", "2", "4", "a", "7", "c", "8", "7", "9", "b", "6", "6", "1", "a",
               "b", "c", "3", "7", "c", "e", "c", "4", "f", "0", "1", "8", "f", "d", "f", "3">>,
        mandatory |-> TRUE, cores |-> <<>>],
       [filename |-> "gc-pal-10.bin", size |-> 2097152,
        md5 |-> <<"0", "c", "d", "d", "a", "5", "0", "9", "e", "2", "d", "a", "8", "3", "c", "8",
               "5", "b", "f", "e", "4", "2", "3", "d", "d", "8", "7", "3", "4", "6", "c", "c">>,
        mandatory |-> TRUE, cores |-> <<>>],
       [filename |-> "gc-pal-12.bin", size |-> 2097152,
        md5 |-> <<"d", "b", "9", "2", "5", "7", "4", "c", "a", "a", "b", "7", "7", "a", "7", "e",
               "c", "9", "9", "d", "4", "6", "0", "5", "f", "d", "6", "f", "2", "4", "5", "0">>,
        mandatory |-> TRUE, cores |-> <<>>],
       [filename |-> "gc-dvd-20010608.bin", size |-> 131072,
        md5 |-> <<"5", "6", "1", "5", "3", "2", "a", "d", "4", "9", "6", "f", "6", "4", "4", "8",
               "9", "7", "9", "5", "2", "d", "2", "c", "e", "f", "5", "b", "b", "4", "3", "1">>,
        mandatory |-> TRUE, cores |-> <<>>],
       [filename |-> "gc-dvd-20010831.bin", size |-> 131072,
        md5 |-> <<"b", "9", "5", "3", "e", "b", "1", "a", "8", "f", "c", "9", "9", "2", "2", "b",
               "3", "f", "7", "0", "5", "1", "c", "1", "c", "d", "c", "4", "5", "1", "f", "1">>,
        mandatory |-> TRUE, cores |-> <<>>],
       [filename |-> "gc-dvd-20020402.bin", size |-> 131072,
        md5 |-> <<"4", "1", "3", "1", "5", "4", "d", "d", "0", "e", "2", "c", "8", "2", "4", "c",
               "9", "b", "1", "8", "b", "8", "0", "7", "f", "d", "0", "3", "e", "c", "4", "e">>,
        mandatory |-> TRUE, cores |-> <<>>],
       [filename |-> "gc-dvd-20020823.bin", size |-> 131072,
        md5 |-> <<"c", "0", "3", "f", "6", "b", "b", "a", "f", "6", "4", "4", "e", "b", "9", "b",
               "3", "e", "e", "2", "6", "1", "d", "b", "e", "1", "9", "9", "e", "b", "4", "2">>,
        mandatory |-> TRUE, cores |-> <<>>],
       [filename |-> "64DD_IPL.bin", size |-> 4194304,
        md5 |-> <<"8", "d", "3", "d", "9", "f", "2", "9", "4", "b", "6", "e", "1", "7", "4", "b",
               "c", "7", "b", "1", "d", "2", "f", "d", "1", "c", "7", "2", "7", "5", "3", "0">>,
        mandatory |-> TRUE, cores |-> <<"parallel">>],
       [filename |-> "bios7.bin", size |-> 16384,
        md5 |-> <<"d", "f", "6", "9", "2", "a", "8", "0", "a", "5", "b", "1", "b", "c", "9", "0",
               "7", "2", "8", "b", "c", "3", "d", "f", "c", "7", "6", "c", "d", "9", "4", "8">>,
        mandatory |-> TRUE, cores |-> <<>>],
       [filename |-> "bios9.bin", size |-> 4096,
        md5 |-> <<"a", "3", "9", "2", "1", "7", "4", "e", "b", "3", "e", "5", "7", "2", "f", "e",
               "d", "6", "4", "4", "7", "e", "9", "5", "6", "b", "d", "e", "4", "b", "2", "5">>,
        mandatory |-> TRUE, cores |-> <<>>],
       [filename |-> "firmware.bin", size |-> 262144,
        md5 |-> <<"e", "4", "5", "0", "3", "3", "d", "9", "b", "0", "f", "a", "6", "b", "0", "d",
               "e", "0", "7", "1", "2", "9", "2", "b", "b", "a", "7", "c", "9", "d", "1", "3">>,
        mandatory |-> TRUE, cores |-> <<>>],
       [filename |-> "bios.min", size |-> 4096,
        md5 |-> <<"1", "e", "4", "f", "b", "1", "2", "4", "a", "3", "a", "8", "8", "6", "8", "6",
               "5", "a", "c", "b", "5", "7", "4", "f", "3", "8", "8", "c", "8", "0", "3", "d">>,
        mandatory |-> TRUE, cores |-> <<"pokemini">>],
       [filename |-> "c52.bin", size |-> 1024,
        md5 |-> <<"f", "1", "0", "7", "1", "c", "d", "b", "0", "b", "6", "b", "1", "0", "d", "d",
               "e", "9", "4", "d", "3", "b", "c", "8", "a", "6", "1", "4", "6", "3", "8", "7">>,
        mandatory |-> TRUE, cores |-> <<>>],
       [filename |-> "g7400.bin", size |-> 1024,
        md5 |-> <<"c", "5", "0", "0", "f", "f", "7", "1", "2", "3", "6", "0", "6", "8", "e", "0",
               "d", "c", "0", "d", "0", "6", "0", "3", "d", "2", "6", "5", "a", "e", "7", "6">>,
        mandatory |-> TRUE, cores |-> <<>>],
       [filename |-> "jopac.bin", size |-> 1024,
        md5 |-> <<"2", "7", "9", "0", "0", "8", "e", "4", "a", "0", "d", "b", "2", "d", "c", "5",
               "f", "1", "c", "0", "4", "8", "8", "5", "3", "b", "0", "3", "3", "8", "2", "8">>,
        mandatory |-> TRUE, cores |-> <<>>],
       [filename |-> "dc/dc_boot.bin", size |-> 2097152,
        md5 |-> <<"e", "1", "0", "c", "5", "3", "c", "2", "f", "8", "b", "9", "0", "b", "a", "b",
               "9", "6", "e", "a", "d", "2", "d", "3", "6", "8", "8", "5", "8", "6", "2", "3">>,
        mandatory |-> TRUE, cores |-> <<"reicast", "redream">>],
       [filename |-> "dc/dc_flash.bin", size |-> 131072,
        md5 |-> <<"0", "a", "9", "3", "f", "7", "9", "4", "0", "c", "4", "5", "5", "9", "0", "5",
               "b", "e", "a", "6", "e", "3", "9", "2", "d", "f", "d", "e", "9", "2", "a", "4">>,
        mandatory |-> TRUE, cores |-> <<"reicast", "redream">>],
       [filename |-> "areplay.bin", size |-> 32768,
        md5 |-> <<"a", "0", "0", "2", "8", "b", "3", "0", "4", "3", "f", "9", "d", "5", "9", "c",
               "e", "e", "b", "0", "3", "d", "a", "5", "b", "0", "7", "3", "b", "3", "0", "d">>,
        mandatory |-> FALSE, cores |-> <<"genesis_plus_gx">>],
       [filename |-> "bios.gg", size |-> 1024,
        md5 |-> <<"6", "7", "2", "e", "1", "0", "4", "c", "3", "b", "e", "3", "a", "2", "3", "8",
               "3", "0", "1", "a", "c", "e", "f", "f", "c", "3", "b", "2", "3", "f", "d", "6">>,
        mandatory |-> FALSE, cores |-> <<"genesis_plus_gx">>],
       [filename |-> "bios_CD_E.bin", size |-> 131072,
        md5 |-> <<"e", "6", "6", "f", "a", "1", "d", "c", "5", "8", "2", "0", "d", "2", "5", "4",
               "6", "1", "1", "f", "d", "c", "d", "b", "a", "0", "6", "6", "2", "3", "7", "2">>,
        mandatory |-> TRUE, cores |-> <<"genesis_plus_gx", "picodrive">>],
       [filename |-> "bios_CD_U.bin", size |-> 131072,
        md5 |-> <<"2", "e", "f", "d", "7", "4", "e", "3", "2", "3", "2", "f", "f", "2", "6", "0",
               "e", "3", "7", "1", "b", "9", "9", "f", "8", "4", "0", "2", "4", "f", "7", "f">>,
        mandatory |-> TRUE, cores |-> <<"genesis_plus_gx", "picodrive">>],
       [filename |-> "bios_CD_J.bin", size |-> 131072,
        md5 |-> <<"2", "7", "8", "a", "9", "3", "9", "7", "d", "1", "9", "2", "1", "4", "9", "e",
               "8", "4", "e", "8", "2", "0", "a", "c", "6", "2", "1", "a", "8", "e", "d", "d">>,
        mandatory |-> TRUE, cores |-> <<"genesis_plus_gx", "picodrive">>],
       [filename |-> "bios_E.sms", size |-> 8192,
        md5 |-> <<"8", "4", "0", "4", "8", "1", "1", "7", "7", "2", "7", "0", "d", "5", "6", "4",
               "2", "a", "1", "4", "c", "a", "7", "1", "e", "e", "7", "2", "8", "4", "4", "c">>,
        mandatory |-> FALSE, cores |-> <<"genesis_plus_gx">>],
       [filename |-> "bios_J.sms", size |-> 8192,
        md5 |-> <<"2", "4", "a", "5", "1", "9", "c", "5", "3", "f", "6", "7", "b", "0", "0", "6",
               "4", "0", "d", "0", "0", "4", "8", "e", "f", "7", "0", "8", "9", "1", "0", "5">>,
        mandatory |-> FALSE, cores |-> <<"genesis_plus_gx">>],
       [filename |-> "bios_U.sms", size |-> 8192,
        md5 |-> <<"8", "4", "0", "4", "8", "1", "1", "7", "7", "2", "7", "0", "d", "5", "6", "4",
               "2", "a", "1", "4", "c", "a", "7", "1", "e", "e", "7", "2", "8", "4", "4", "c">>,
        mandatory |-> FALSE, cores |-> <<"genesis_plus_gx">>],
       [filename |-> "ggenie.bin", size |-> 32768,
        md5 |-> <<"b", "5", "d", "5", "f", "f", "1", "1", "4", "7", "0", "3", "6", "b", "0", "6",
               "9", "4", "4", "b", "4", "d", "2", "c", "a", "c", "2", "d", "d", "1", "e", "1">>,
        mandatory |-> FALSE, cores |-> <<"genesis_plus_gx">>],
       [filename |-> "sk.bin", size |-> 2097152,
        md5 |-> <<"4", "e", "a", "4", "9", "3", "e", "a", "4", "e", "9", "f", "6", "c", "9", "e",
               "b", "f", "c", "c", "b", "d", "b", "1", "5", "1", "1", "0", "3", "6", "7", "e">>,
        mandatory |-> FALSE, cores |-> <<"genesis_plus_gx">>],
       [filename |-> "sk2chip.bin", size |-> 262144,
        md5 |-> <<"b", "4", "e", "7", "6", "e", "4", "1", "6", "b", "8", "8", "7", "f", "4", "e",
               "7", "4", "1", "3", "b", "a", "7", "6", "f", "a", "7", "3", "5", "f", "1", "6">>,
        mandatory |-> FALSE, cores |-> <<>>],
       [filename |-> "mpr-17933.bin", size |-> 524288,
        md5 |-> <<"3", "2", "4", "0", "8", "7", "2", "c", "7", "0", "9", "8", "4", "b", "6", "c",
               "b", "f", "d", "a", "1", "5", "8", "6", "c", "a", "b", "6", "8", "d", "b", "e">>,
        mandatory |-> TRUE, cores |-> <<"mednafen_saturn">>],
       [filename |-> "mpr-18811-mx.ic1", size |-> 2097152,
        md5 |-> <<"2", "5", "5", "1", "1", "3", "b", "a", "9", "4", "3", "c", "9", "2", "a", "5",
               "4", "f", "a", "c", "d", "2", "5", "a", "1", "0", "f", "d", "7", "8", "0", "c">>,
        mandatory |-> TRUE, cores |-> <<"mednafen_saturn">>],
       [filename |-> "mpr-19367-mx.ic1", size |-> 2097152,
        md5 |-> <<"1", "c", "d", "1", "9", "9", "8", "8", "d", "1", "d", "7", "2", "a", "3", "e",
               "7", "c", "a", "a", "0", "b", "7", "3", "2", "3", "4", "c", "9", "6", "b", "4">>,
        mandatory |-> TRUE, cores |-> <<"mednafen_saturn">>],
       [filename |-> "sega_101.bin", size |-> 524288,
        md5 |-> <<"8", "5", "e", "c", "9", "c", "a", "4", "7", "d", "8", "f", "6", "8", "0", "7",
               "7", "1", "8", "1", "5", "1", "c", "b", "c", "c", "a", "8", "b", "9", "6", "4">>,
        mandatory |-> TRUE, cores |-> <<"mednafen_saturn">>],
       [filename |-> "saturn_bios.bin", size |-> 524288,
        md5 |-> <<"a", "f", "5", "8", "2", "8", "f", "d", "f", "f", "5", "1", "3", "8", "4", "f",
               "9", "9", "b", "3", "c", "4", "9", "2", "6", "b", "e", "2", "7", "7", "6", "2">>,
        mandatory |-> FALSE, cores |-> <<>>],
       [filename |-> "cgrom.dat", size |-> 786432,
        md5 |-> <<"c", "b", "0", "a", "5", "c", "f", "c", "f", "7", "2", "4", "7", "a", "7", "e",
               "a", "b", "7", "4", "b", "b", "2", "7", "1", "6", "2", "6", "0", "2", "6", "9">>,
        mandatory |-> TRUE, cores |-> <<>>],
       [filename |-> "iplrom.dat", size |-> 131072,
        md5 |-> <<"7", "f", "d", "4", "c", "a", "a", "b", "a", "c", "1", "d", "9", "1", "6", "9",
               "e", "2", "8", "9", "f", "0", "f", "7", "b", "b", "f", "7", "1", "d", "8", "e">>,
        mandatory |-> TRUE, cores |-> <<>>],
       [filename |-> "scph5500.bin", size |-> 524288,
        md5 |-> <<"8", "d", "d", "7", "d", "5", "2", "9", "6", "a", "6", "5", "0", "f", "a", "c",
               "7", "3", "1", "9", "b", "c", "e", "6", "6", "5", "a", "6", "a", "5", "3", "c">>,
        mandatory |-> TRUE, cores |-> <<"mednafen_psx", "mednafen_psx_hw", "pcsx_rearmed">>],
       [filename |-> "scph5501.bin", size |-> 524288,
        md5 |-> <<"4", "9", "0", "f", "6", "6", "6", "e", "1", "a", "f", "b", "1", "5", "b", "7",
               "3", "6", "2", "b", "4", "0", "6", "e", "d", "1", "c", "e", "a", "2", "4", "6">>,
        mandatory |-> TRUE, cores |-> <<"mednafen_psx", "mednafen_psx_hw", "pcsx_rearmed">>],
       [filename |-> "scph5502.bin", size |-> 524288,
        md5 |-> <<"3", "2", "7", "3", "6", "f", "1", "7", "0", "7", "9", "d", "0", "b", "2", "b",
               "7", "0", "2", "4", "4", "0", "7", "c", "3", "9", "b", "d", "3", "0", "5", "0">>,
        mandatory |-> TRUE, cores |-> <<"mednafen_psx", "mednafen_psx_hw", "pcsx_rearmed">>],
       [filename |-> "ppge_atlas.zim", size |-> 784968,
        md5 |-> <<"a", "9", "3", "f", "c", "4", "1", "1", "c", "1", "c", "e", "7", "d", "0", "0",
               "1", "a", "2", "a", "8", "1", "2", "6", "4", "3", "c", "7", "0", "0", "8", "5">>,
        mandatory |-> TRUE, cores |-> <<"ppsspp", "psp1">>],
       [filename |-> "goldstar.bin", size |-> 1048576,
        md5 |-> <<"8", "6", "3", "9", "f", "d", "5", "e", "5", "4", "9", "b", "d", "6", "2", "3",
               "8", "c", "f", "e", "e", "7", "9", "e", "3", "e", "7", "4", "9", "1", "1", "4">>,
        mandatory |-> TRUE, cores |-> <<>>],
       [filename |-> "panafz1.bin", size |-> 1048576,
        md5 |-> <<"f", "4", "7", "2", "6", "4", "d", "d", "4", "7", "f", "e", "3", "0", "f", "7",
               "3", "a", "b", "3", "c", "0", "1", "0", "0", "1", "5", "c", "1", "5", "5", "b">>,
        mandatory |-> TRUE, cores |-> <<>>],
       [filename |-> "panafz10.bin", size |-> 1048576,
        md5 |-> <<"5", "1", "f", "2", "f", "4", "3", "a", "e", "2", "f", "3", "5", "0", "8", "a",
               "1", "4", "d", "9", "f", "5", "6", "5", "9", "7", "e", "2", "d", "3", "c", "e">>,
        mandatory |-> TRUE, cores |-> <<>>],
       [filename |-> "sanyotry.bin", size |-> 1048576,
        md5 |-> <<"3", "5", "f", "a", "1", "a", "1", "e", "b", "a", "a", "e", "e", "a", "2", "8",
               "6", "d", "c", "5", "c", "d", "1", "5", "4", "8", "7", "c", "1", "3", "e", "a">>,
        mandatory |-> TRUE, cores |-> <<>>]
    >>

\* The row of the table for one file name (file names are unique in the table).
BiosRowNamed(name) ==
    LET k == CHOOSE i \in DOMAIN Libretro_BIOS_list :
                 Libretro_BIOS_list[i].filename = name
    IN  Libretro_BIOS_list[k]

\* The 'md5' value misc_calculate_checksums returns for a file whose MD5
\* hexdigest is h: md5_digest.upper().
EngineMD5(h) == StrUpper(h)

\* A file of the listing, as the audit sees it: name, os.path.getsize and the
\* checksum engine's md5. GenuineFile is the BIOS file the row describes.
BiosFile(name, nbytes, hexdigest) ==
    [filename |-> name, size |-> nbytes, md5 |-> EngineMD5(hexdigest)]

GenuineFile(name) ==
    BiosFile(name, BiosRowNamed(name).size, BiosRowNamed(name).md5)

\* Files a directory may hold: genuine BIOS files (mandatory and optional), a
\* file with the right name and size but other content, a truncated file, and
\* a file no row names.
BiosFilePool ==
    { GenuineFile("scph5500.bin"),
      BiosFile("scph5500.bin", 524288, BiosRowNamed("scph5501.bin").md5),
      BiosFile("scph5500.bin", 2048, BiosRowNamed("scph5500.bin").md5),
      GenuineFile("scph5501.bin"),
      GenuineFile("5200.rom"),
      GenuineFile("areplay.bin"),
      BiosFile("readme.txt", 2048, BiosRowNamed("5200.rom").md5) }

\* A directory holds one file per name.
BiosListings ==
    { L \in SUBSET BiosFilePool :
        /\ Cardinality(L) <= MaxFiles
        /\ \A f, g \in L : f.filename = g.filename => f = g }

\* core_id values: cores the table names and one it does not.
BiosCores == {"mednafen_psx", "atari800", "genesis_plus_gx", "handy", "mame2003"}

\* "check the listing for a matching filename/size/MD5": the table keeps the
\* digest in lower case, the checksum engine returns it in upper case.
BiosSatisfied(row, listing) ==
    \E f \in listing :
        /\ f.filename = row.filename
        /\ f.size = row.size
        /\ f.md5 = StrUpper(row.md5)

InitBios ==
    /\ BiosAlone
    /\ bios_table = Libretro_BIOS_list
    /\ bios_core \in BiosCores
    /\ bios_listing \in BiosListings
    /\ bios_pc = "call"
    /\ bios_idx = 0
    /\ bios_report = <<>>

\* audit(directory_listing, core_id) is entered.
BiosCall ==
    /\ bios_pc = "call"
    /\ bios_pc' = "rows"
    /\ bios_idx' = 0
    /\ bios_report' = <<>>
    /\ UNCHANGED <<bios_table, bios_core, bios_listing>>
    /\ BiosOnly

\* One row of the table: selected when its cores contain core_id, and then
\* reported with the outcome of the listing check.
BiosStep ==
    /\ bios_pc = "rows"
    /\ bios_idx < Len(bios_table)
    /\ LET row == bios_table[bios_idx + 1]
       IN  bios_report' =
               IF bios_core \in Range(row.cores)
               THEN Append(bios_report,
                           [entry |-> row,
                            satisfied |-> BiosSatisfied(row, bios_listing)])
               ELSE bios_report
    /\ bios_idx' = bios_idx + 1
    /\ UNCHANGED <<bios_table, bios_core, bios_listing, bios_pc>>
    /\ BiosOnly

\* The table is exhausted: the list of (BiosEntry, satisfied) is returned.
BiosReturn ==
    /\ bios_pc = "rows"
    /\ bios_idx = Len(bios_table)
    /\ bios_pc' = "done"
    /\ UNCHANGED <<bios_table, bios_core, bios_listing, bios_idx, bios_report>>
    /\ BiosOnly

NextBios ==
    \/ BiosCall
    \/ BiosStep
    \/ BiosReturn

SpecBios == InitBios /\ [][NextBios]_vars

\* ---- C20 ----
\* The upper-case MD5 the checksum engine returns for the genuine scph5500.bin.
Scph5500EngineMD5 ==
    <<"8", "D", "D", "7", "D", "5", "2", "9", "6", "A", "6", "5", "0", "F", "A", "C",
      "7", "3", "1", "9", "B", "C", "E", "6", "6", "5", "A", "6", "A", "5", "3", "C">>

ReportedEntries == [k \in DOMAIN bios_report |-> bios_report[k].entry]

RowsOfCore(core) ==
    SelectSeq(Libretro_BIOS_list, LAMBDA row : core \in Range(row.cores))

MaxDialogCalls == 5

Message1Pool == {"a"}
Message2Pool == {"", "b"}
NumStepsPool == {0, 2}
StepIndexPool == {1, 2}

\* __init__ (2757-2762): message1, message2 and num_steps are not bound by
\* it; `bound` is the set of these attributes an assignment has bound since.
KodiProgressDialog ==
    [title |-> "Advanced Emulator Launcher",
     progress |-> 0,
     flag_dialog_canceled |-> FALSE,
     dialog_active |-> FALSE,
     num_steps |-> 0,
     message1 |-> "",
     message2 |-> "",
     bound |-> {}]

\* xbmcgui.DialogProgress as the object uses it: whether it is on screen,
\* what iscanceled() reports, and the arguments of the last create() and
\* update() calls.
DialogProgress ==
    [open |-> FALSE, canceled |-> FALSE, create_args |-> <<>>, update_args |-> <<>>]

DlgCreate(d, args) == [d EXCEPT !.open = TRUE, !.canceled = FALSE, !.create_args = args]
DlgUpdate(d, args) == [d EXCEPT !.update_args = args]
DlgClose(d) == [d EXCEPT !.open = FALSE]

Returned(op, value) == [op |-> op, ret |-> value, exc |-> ""]
KpdRaised(op, type) == [op |-> op, ret |-> PyNone, exc |-> type]

InitDialog ==
    /\ DialogAlone
    /\ kpd = KodiProgressDialog
    /\ progressDialog = DialogProgress
    /\ kpd_last = Returned("__init__", PyNone)
    /\ kpd_calls = 0
    /\ cancel_seen = FALSE

\* Every method call counts; the object is used by one thread.
KpdCalled ==
    /\ kpd_calls < MaxDialogCalls
    /\ kpd_calls' = kpd_calls + 1
    /\ DialogOnly

\* The user presses Cancel on the dialog that is on screen.
UserCancel ==
    /\ progressDialog.open
    /\ ~progressDialog.canceled
    /\ progressDialog' = [progressDialog EXCEPT !.canceled = TRUE]
    /\ UNCHANGED <<kpd, kpd_last, kpd_calls, cancel_seen>>
    /\ DialogOnly

\* startProgress (2764-2769)
startProgress(message, num_steps) ==
    /\ KpdCalled
    /\ kpd' = [kpd EXCEPT !.num_steps = num_steps, !.progress = 0,
                          !.dialog_active = TRUE,
                          !.bound = @ \cup {"num_steps"}]
    /\ progressDialog' = DlgUpdate(DlgCreate(progressDialog, <<kpd.title, message>>), <<0>>)
    /\ kpd_last' = Returned("startProgress", PyNone)
    /\ UNCHANGED cancel_seen

\* int((step_index * 100) / self.num_steps), Python 2 integer division
ProgressOf(step_index, num_steps) == (step_index * 100) \div num_steps

\* updateProgress (2772-2779)
updateProgress(step_index, message1, message2) ==
    /\ KpdCalled
    /\ IF "num_steps" \notin kpd.bound
       THEN /\ kpd_last' = KpdRaised("updateProgress", "AttributeError")
            /\ UNCHANGED <<kpd, progressDialog>>
       ELSE IF kpd.num_steps = 0
       THEN /\ kpd_last' = KpdRaised("updateProgress", "ZeroDivisionError")
            /\ UNCHANGED <<kpd, progressDialog>>
       ELSE LET p == ProgressOf(step_index, kpd.num_steps)
            IN  /\ kpd' = [kpd EXCEPT !.progress = p, !.message1 = message1,
                                      !.message2 = message2,
                                      !.bound = @ \cup {"message1", "message2"}]
                /\ progressDialog' =
                       IF message2 # ""
                       THEN DlgUpdate(progressDialog, <<p, message1, message2>>)
                       ELSE DlgUpdate(progressDialog, <<p, message1>>)
                /\ kpd_last' = Returned("updateProgress", PyNone)
    /\ UNCHANGED cancel_seen

\* updateMessages (2782-2785)
updateMessages(message1, message2) ==
    /\ KpdCalled
    /\ kpd' = [kpd EXCEPT !.message1 = message1, !.message2 = message2,
                          !.bound = @ \cup {"message1", "message2"}]
    /\ progressDialog' = DlgUpdate(progressDialog, <<kpd.progress, message1, message2>>)
    /\ kpd_last' = Returned("updateMessages", PyNone)
    /\ UNCHANGED cancel_seen

\* updateMessage (2788-2790)
updateMessage(message1) ==
    /\ KpdCalled
    /\ kpd' = [kpd EXCEPT !.message1 = message1, !.bound = @ \cup {"message1"}]
    /\ progressDialog' = DlgUpdate(progressDialog, <<kpd.progress, message1>>)
    /\ kpd_last' = Returned("updateMessage", PyNone)
    /\ UNCHANGED cancel_seen

\* updateMessage2 (2793-2795): message2 is assigned before self.message1 is read.
updateMessage2(message2) ==
    /\ KpdCalled
    /\ kpd' = [kpd EXCEPT !.message2 = message2, !.bound = @ \cup {"message2"}]
    /\ IF "message1" \in kpd.bound
       THEN /\ progressDialog' =
                   DlgUpdate(progressDialog, <<kpd.progress, kpd.message1, message2>>)
            /\ kpd_last' = Returned("updateMessage2", PyNone)
       ELSE /\ kpd_last' = KpdRaised("updateMessage2", "AttributeError")
            /\ UNCHANGED progressDialog
    /\ UNCHANGED cancel_seen

\* What isCanceled returns (2798-2803): the remembered cancel, else what
\* the dialog reports now.
IsCanceledResult_AskDialog(flag, reported) == reported
IsCanceledResult(flag, reported) == IF flag THEN TRUE ELSE reported

\* isCanceled (2797-2803)
isCanceled ==
    /\ KpdCalled
    /\ LET result == IsCanceledResult(kpd.flag_dialog_canceled, progressDialog.canceled)
       IN  /\ kpd' = [kpd EXCEPT !.flag_dialog_canceled = result]
           /\ kpd_last' = Returned("isCanceled", result)
           /\ cancel_seen' = (cancel_seen \/ result)
    /\ UNCHANGED progressDialog

\* close (2805-2810)
close ==
    /\ KpdCalled
    /\ kpd' = [kpd EXCEPT !.flag_dialog_canceled = (@ \/ progressDialog.canceled),
                          !.dialog_active = FALSE]
    /\ progressDialog' = DlgClose(progressDialog)
    /\ kpd_last' = Returned("close", PyNone)
    /\ cancel_seen' = (cancel_seen \/ progressDialog.canceled)

\* endProgress (2812-2818)
endProgress ==
    /\ KpdCalled
    /\ kpd' = [kpd EXCEPT !.flag_dialog_canceled = (@ \/ progressDialog.canceled),
                          !.dialog_active = FALSE]
    /\ progressDialog' = DlgClose(DlgUpdate(progressDialog, <<100>>))
    /\ kpd_last' = Returned("endProgress", PyNone)
    /\ cancel_seen' = (cancel_seen \/ progressDialog.canceled)

\* The arguments reopen hands to create (2822-2825).
ReopenCreateArgs_Message2WhenSet(o) ==
    IF o.message2 # ""
    THEN <<o.title, o.message1, o.message2>>
    ELSE <<o.title, o.message1>>
ReopenCreateArgs(o) ==
    IF ~(o.message2 # "")
    THEN <<o.title, o.message1, o.message2>>
    ELSE <<o.title, o.message1>>

\* reopen (2821-2826): self.message2 is read first, then self.message1.
reopen ==
    /\ KpdCalled
    /\ IF {"message1", "message2"} \subseteq kpd.bound
       THEN /\ progressDialog' =
                   DlgUpdate(DlgCreate(progressDialog, ReopenCreateArgs(kpd)),
                             <<kpd.progress>>)
            /\ kpd_last' = Returned("reopen", PyNone)
       ELSE /\ kpd_last' = KpdRaised("reopen", "AttributeError")
            /\ UNCHANGED progressDialog
    /\ UNCHANGED <<kpd, cancel_seen>>

NextDialog ==
    \/ UserCancel
    \/ \E m \in Message1Pool, n \in NumStepsPool : startProgress(m, n)
    \/ \E i \in StepIndexPool, m1 \in Message1Pool, m2 \in Message2Pool :
           updateProgress(i, m1, m2)
    \/ \E m1 \in Message1Pool, m2 \in Message2Pool : updateMessages(m1, m2)
    \/ \E m1 \in Message1Pool : updateMessage(m1)
    \/ \E m2 \in Message2Pool : updateMessage2(m2)
    \/ isCanceled
    \/ close
    \/ endProgress
    \/ reopen

SpecDialog == InitDialog /\ [][NextDialog]_vars

\* ---- C21 ----
\* C21: a KodiProgressDialog remembers a cancel forever: once isCanceled() has
\* returned True, or close() / endProgress() has seen the dialog cancelled,
\* every later isCanceled() returns True, whatever calls were made in between
\* and whatever the dialog reports by then.
C21_CancelRemembered ==
    [][(cancel_seen /\ kpd_calls' # kpd_calls /\ kpd_last'.op = "isCanceled")
           => kpd_last'.ret = TRUE]_vars

\* isCanceled() has just returned True although the dialog, created again
\* since the cancel, reports no cancel.
C21_Witness ==
    /\ kpd_last.op = "isCanceled"
    /\ kpd_last.ret = TRUE
    /\ cancel_seen
    /\ ~progressDialog.canceled
    /\ progressDialog.open

\* ---- C27 ----
\* reopen() is called on a dialog that was created before and is closed, on
\* an object that has messages to remember.
ReopenOfClosed ==
    /\ kpd_calls' # kpd_calls
    /\ kpd_last'.op = "reopen"
    /\ {"message1", "message2"} \subseteq kpd.bound
    /\ progressDialog.create_args # <<>>
    /\ ~progressDialog.open

\* C27: reopen() of a previously closed dialog creates the dialog again with
\* the remembered messages (message1 and, whenever message2 is non-empty, also
\* message2) and then shows the remembered progress; close() and reopen()
\* leave the progress and the messages stored in the object as they were.
C27_ReopenRemembers ==
    [][/\ ReopenOfClosed =>
            /\ kpd_last'.exc = ""
            /\ progressDialog'.open
            /\ Len(progressDialog'.create_args) >= 2
            /\ progressDialog'.create_args[1] = kpd.title
            /\ progressDialog'.create_args[2] = kpd.message1
            /\ kpd.message2 # "" =>
                  progressDialog'.create_args = <<kpd.title, kpd.message1, kpd.message2>>
            /\ kpd.message2 = "" /\ Len(progressDialog'.create_args) = 3 =>
                  progressDialog'.create_args[3] = ""
            /\ progressDialog'.update_args = <<kpd.progress>>
       /\ (kpd_calls' # kpd_calls /\ kpd_last'.op \in {"close", "reopen"}) =>
            /\ kpd'.progress = kpd.progress
            /\ kpd'.message1 = kpd.message1
            /\ kpd'.message2 = kpd.message2
            /\ kpd'.bound = kpd.bound
      ]_vars

\* ------------------------------------------------------------------------
\* WizardDialog (utils.py 2516-2560)
\* ------------------------------------------------------------------------
MaxDialogs == 2
MaxRuns == 2

\* WizardDialog.__init__ (2519-2525). conditional / custom say whether a
\* conditionalFunction / customFunction was given.
WizardDialog(property_key, conditional, custom) ==
    [property_key |-> property_key, conditional |-> conditional, custom |-> custom,
     cancelled |-> FALSE]

DialogKinds ==
    { WizardDialog("k1", FALSE, FALSE),
      WizardDialog("k2", TRUE, FALSE),
      WizardDialog("", FALSE, TRUE),
      WizardDialog("k1", TRUE, TRUE) }

Chains ==
    UNION { [1..n -> DialogKinds] : n \in 1..MaxDialogs }

\* What the user does with a dialog that is shown: confirm a value or cancel.
Cancel == "<cancel>"
UserOutcomes == {Cancel, "x"}

\* Dictionaries a caller hands to runWizard.
PropertiesPool == { EmptyDict, DictSet(EmptyDict, "k1", "old") }

\* customFunction(output, property_key, properties): returns the value to store.
customFunction(output) == "custom"

InitWizard ==
    /\ WizardAlone
    /\ wz_chain \in Chains
    /\ properties = EmptyDict
    /\ properties_before = EmptyDict
    /\ wz_pc = "call"
    /\ wz_idx = 0
    /\ wz_trace = <<>>
    /\ wz_ret = NotReturned
    /\ wz_runs = 0

\* runWizard(properties) is called on the last dialog of the chain (2527).
\* The caller passes a new dictionary or the one of the previous call.
runWizard ==
    /\ wz_pc \in {"call", "done"}
    /\ wz_runs < MaxRuns
    /\ \E props \in PropertiesPool \cup {properties} :
          /\ properties' = props
          /\ properties_before' = props
    /\ wz_pc' = "execute"
    /\ wz_idx' = 0
    /\ wz_trace' = <<>>
    /\ wz_ret' = NotReturned
    /\ wz_runs' = wz_runs + 1
    /\ UNCHANGED wz_chain
    /\ WizardOnly

\* The value executeDialog stores (2548-2549).
StoredOutput(d, output) == IF d.custom THEN customFunction(output) ELSE output

\* executeDialog of the next dialog (2534-2555), entered after the
\* executeDialog of its decoratorDialog returned True (2535-2537).
executeDialog ==
    /\ wz_pc = "execute"
    /\ wz_idx < Len(wz_chain)
    /\ LET i == wz_idx + 1
           d == wz_chain[i]
       IN  \E mayShow \in (IF d.conditional THEN BOOLEAN ELSE {TRUE}),
              outcome \in UserOutcomes :
             IF ~mayShow
             THEN \* 2539-2543
                  /\ wz_trace' = Append(wz_trace, [dialog |-> i, event |-> "skipped"])
                  /\ wz_idx' = i
                  /\ UNCHANGED <<wz_chain, properties, wz_pc>>
             ELSE \* show (2545), which calls _cancel when the user cancels
                  LET cancelled == d.cancelled \/ outcome = Cancel
                  IN  /\ wz_trace' =
                             Append(wz_trace,
                                    [dialog |-> i,
                                     event |-> IF outcome = Cancel THEN "cancelled"
                                                                   ELSE "confirmed"])
                      /\ wz_chain' = [wz_chain EXCEPT ![i].cancelled = cancelled]
                      /\ IF cancelled
                         THEN \* 2546: return False, and so does every wrapping dialog
                              /\ wz_pc' = "stopped"
                              /\ UNCHANGED <<properties, wz_idx>>
                         ELSE \* 2548-2555
                              /\ properties' =
                                     IF d.property_key # ""
                                     THEN DictSet(properties, d.property_key,
                                                  StoredOutput(d, outcome))
                                     ELSE properties
                              /\ wz_idx' = i
                              /\ UNCHANGED wz_pc
    /\ UNCHANGED <<properties_before, wz_ret, wz_runs>>
    /\ WizardOnly

\* runWizard returns (2528-2532).
runWizardReturn ==
    /\ \/ /\ wz_pc = "stopped"
          /\ wz_ret' = PyNone
       \/ /\ wz_pc = "execute"
          /\ wz_idx = Len(wz_chain)
          /\ wz_ret' = [kind |-> "dict", value |-> properties]
    /\ wz_pc' = "done"
    /\ UNCHANGED <<wz_chain, properties, properties_before, wz_idx, wz_trace, wz_runs>>
    /\ WizardOnly

NextWizard ==
    \/ runWizard
    \/ executeDialog
    \/ runWizardReturn

SpecWizard == InitWizard /\ [][NextWizard]_vars

\* ---- C22 ----
TraceDialogs == [k \in DOMAIN wz_trace |-> wz_trace[k].dialog]

CancelledAt == {k \in DOMAIN wz_trace : wz_trace[k].event = "cancelled"}

\* C22: runWizard on the last dialog of a chain visits the dialogs in chain
\* order, a dialog whose conditionalFunction returns false is not shown and the
\* chain goes on, no dialog is shown after one was cancelled and runWizard then
\* returns None; when none was cancelled every dialog was visited and runWizard
\* returns the properties dictionary.
C22_ChainOrder ==
    wz_pc = "done" =>
        /\ \A k \in DOMAIN wz_trace : wz_trace[k].dialog = k
        /\ CancelledAt # {} =>
              /\ CancelledAt = {Len(wz_trace)}
              /\ wz_ret = PyNone
        /\ CancelledAt = {} =>
              /\ Len(wz_trace) = Len(wz_chain)
              /\ wz_ret = [kind |-> "dict", value |-> properties]

\* ---- C30 ----
\* C30: when runWizard returns None because a dialog was cancelled the
\* dictionary passed in holds what it held before the call, and a later
\* runWizard on the same chain in which the user cancels nothing runs to the
\* end and returns the properties.
C30_CancelLeavesProperties ==
    wz_pc = "done" =>
        /\ wz_ret = PyNone => properties = properties_before
        /\ (wz_runs >= 2 /\ CancelledAt = {}) => wz_ret # PyNone

\* ------------------------------------------------------------------------
\* text_limit_string (utils.py 170-181)
\* ------------------------------------------------------------------------
MaxTextLen == 7
MaxLimit == 8

TextChars == {"a", "."}
Texts == UNION { [1..n -> TextChars] : n \in 0..MaxTextLen }
Limits == (-2)..MaxLimit

Dots == <<".", ".", ".">>

\* text_limit_string (178-181); string[0:k] with k >= 0 here.
text_limit_string(string, max_len) ==
    IF max_len > 5 /\ Len(string) > max_len
    THEN SubSeq(string, 1, max_len - 3) \o Dots
    ELSE string

InitLimit ==
    /\ LimitAlone
    /\ lim_string \in Texts
    /\ max_length \in Limits
    /\ lim_pc = "call"
    /\ lim_ret = NoStr

LimCall ==
    /\ lim_pc = "call"
    /\ lim_ret' = text_limit_string(lim_string, max_length)
    /\ lim_pc' = "done"
    /\ UNCHANGED <<lim_string, max_length>>
    /\ LimitOnly

NextLimit == LimCall

SpecLimit == InitLimit /\ [][NextLimit]_vars

\* ---- C23 ----
\* C23: for every string and every max_length other than -1 the string
\* text_limit_string returns has length max_length or less, the three dots of
\* a trimmed string included; with max_length = -1, or a string no longer than
\* max_length, the string is returned as it is.
C23_LimitLength ==
    lim_pc = "done" =>
        /\ max_length # -1 => Len(lim_ret) <= max_length
        /\ (max_length = -1 \/ Len(lim_string) <= max_length) => lim_ret = lim_string

\* ------------------------------------------------------------------------
\* File cache (utils.py 711-748)
\* ------------------------------------------------------------------------
MaxCacheCalls == 3
MaxDirFiles == 2
MaxExts == 2

\* Directory paths (dir_FN.getPath()), file names a directory may hold, and
\* the arguments of a search.
CacheDirs == {"/roms", "/assets"}
DiskNames ==
    { <<"A", ".", "x">>, <<"a", ".", "y">>, <<"b", ".", "X">>, <<"c">> }
DirListings == { L \in SUBSET DiskNames : Cardinality(L) <= MaxDirFiles }
SearchNames == { <<"A">>, <<"b">> }
ExtPool == { <<"x">>, <<"Y">> }
ExtLists == UNION { [1..n -> ExtPool] : n \in 1..MaxExts }

\* unicode.lower() on the letters of the names above.
LowerChar(c) ==
    CASE c = "A" -> "a"
      [] c = "B" -> "b"
      [] c = "X" -> "x"
      [] c = "Y" -> "y"
      [] OTHER -> c

StrLower(s) == [i \in 1..Len(s) |-> LowerChar(s[i])]

\* fnmatch.filter(all_files, '*.*') in scanFilesInPath (2174-2181): the names
\* that hold a dot.
MatchesMask(name) == \E i \in 1..Len(name) : name[i] = "."

\* file_set of misc_add_file_cache (719-722). The list is only ever tested
\* with `in` (743), so it is kept as the set of its members.
FileSet(listing) == { StrLower(name) : name \in {n \in listing : MatchesMask(n)} }

\* The loop of misc_search_file_cache (739-748): position in file_exts of the
\* first extension whose lower-cased file_base is in the cached set, 0 if none.
FirstHit_LastMatch(cache_set, filename_noext, file_exts) ==
    LET hits == { k \in 1..Len(file_exts) :
                    StrLower(filename_noext \o <<".">> \o file_exts[k]) \in cache_set }
    IN  IF hits = {} THEN 0 ELSE CHOOSE k \in hits : \A j \in hits : k >= j
FirstHit(cache_set, filename_noext, file_exts) ==
    LET hits == { k \in 1..Len(file_exts) :
                    StrLower(filename_noext \o <<".">> \o file_exts[k]) \in cache_set }
    IN  IF hits = {} THEN 0 ELSE CHOOSE k \in hits : \A j \in hits : k <= j

\* dir_path.pjoin(file_base) (745): a FileName inside the directory.
PJoin(dir_str, file_base) == [kind |-> "FileName", dir |-> dir_str, base |-> file_base]

InitCache ==
    /\ CacheAlone
    /\ file_cache = EmptyDict
    /\ fc_last = [op |-> "import", dir |-> "", ret |-> PyNone]
    /\ fc_calls = 0
    /\ last_scan = EmptyDict

\* misc_add_file_cache(dir_FN) with an empty argument (715-717).
misc_add_file_cache_empty ==
    /\ fc_calls < MaxCacheCalls
    /\ fc_calls' = fc_calls + 1
    /\ fc_last' = [op |-> "add", dir |-> "", ret |-> PyNone]
    /\ UNCHANGED <<file_cache, last_scan>>
    /\ CacheOnly

\* misc_add_file_cache(dir_FN) on a directory that holds `listing` (719-727).
misc_add_file_cache(dir_str, listing) ==
    /\ fc_calls < MaxCacheCalls
    /\ fc_calls' = fc_calls + 1
    /\ file_cache' = DictSet(file_cache, dir_str, FileSet(listing))
    /\ last_scan' = DictSet(last_scan, dir_str, listing)
    /\ fc_last' = [op |-> "add", dir |-> dir_str, ret |-> PyNone]
    /\ CacheOnly

\* misc_search_file_cache(dir_path, filename_noext, file_exts) (732-748)
misc_search_file_cache(dir_str, filename_noext, file_exts) ==
    /\ fc_calls < MaxCacheCalls
    /\ fc_calls' = fc_calls + 1
    /\ fc_last' =
          [op |-> "search", dir |-> dir_str,
           ret |-> IF dir_str \notin DOMAIN file_cache
                   THEN PyNone
                   ELSE LET k == FirstHit(file_cache[dir_str], filename_noext, file_exts)
                        IN  IF k = 0
                            THEN PyNone
                            ELSE PJoin(dir_str,
                                       StrLower(filename_noext \o <<".">> \o file_exts[k])),
           name |-> filename_noext, exts |-> file_exts]
    /\ UNCHANGED <<file_cache, last_scan>>
    /\ CacheOnly

NextCache ==
    \/ misc_add_file_cache_empty
    \/ \E d \in CacheDirs, L \in DirListings : misc_add_file_cache(d, L)
    \/ \E d \in CacheDirs, n \in SearchNames, e \in ExtLists :
           misc_search_file_cache(d, n, e)

SpecCache == InitCache /\ [][NextCache]_vars

\* ---- C26 ----
\* The entries of all directories but d are the same in caches c1 and c2.
SameElsewhere(c1, c2, d) ==
    \A e \in CacheDirs \ {d} :
        /\ (e \in DOMAIN c1) = (e \in DOMAIN c2)
        /\ e \in DOMAIN c1 => c1[e] = c2[e]

\* C26: a search returns None for a directory never added; otherwise a path
\* inside the directory for the first extension, in list order, whose
\* lower-cased 'name.e' is among the lower-cased basenames recorded by the
\* latest misc_add_file_cache of that directory, and None when there is none.
\* Adding one directory leaves the entries of the others alone, an add with
\* an empty argument and every search leave the whole cache alone.
C26_FileCache ==
    [][fc_calls' # fc_calls =>
         /\ fc_last'.op = "search" =>
              /\ file_cache' = file_cache
              /\ fc_last'.dir \notin DOMAIN last_scan' => fc_last'.ret = PyNone
              /\ fc_last'.dir \in DOMAIN last_scan' =>
                    LET hits == { k \in 1..Len(fc_last'.exts) :
                                    \E n \in last_scan'[fc_last'.dir] :
                                        StrLower(n) = StrLower(fc_last'.name \o <<".">>
                                                               \o fc_last'.exts[k]) }
                    IN  IF hits = {}
                        THEN fc_last'.ret = PyNone
                        ELSE /\ fc_last'.ret # PyNone
                             /\ fc_last'.ret.dir = fc_last'.dir
                             /\ \E k \in hits :
                                   /\ \A j \in hits : k <= j
                                   /\ StrLower(fc_last'.ret.base) =
                                          StrLower(fc_last'.name \o <<".">>
                                                   \o fc_last'.exts[k])
         /\ fc_last'.op = "add" =>
              IF fc_last'.dir = ""
              THEN file_cache' = file_cache
              ELSE SameElsewhere(file_cache, file_cache', fc_last'.dir)
      ]_vars

\* A search of 'A' with extensions ['Y', 'x'] has found a.y, the first
\* extension in list order, in a directory that held 'a.y' and 'A.x' when
\* it was added, while the other directory is cached as well.
C26_Witness ==
    /\ fc_last.op = "search"
    /\ fc_last.ret # PyNone
    /\ fc_last.exts = << <<"Y">>, <<"x">> >>
    /\ fc_last.ret.base = <<"a", ".", "y">>
    /\ DOMAIN file_cache = CacheDirs

\* ------------------------------------------------------------------------
\* Migration_0_9_9 (migrations/migration_0_9_9.py 23-63)
\* ------------------------------------------------------------------------
MaxLaunchers == 2
MaxMigrations == 2

\* Names the migration takes from constants.py.
RETROPLAYER_LAUNCHER_APP_NAME == "retroplayer_launcher_app"
LNK_LAUNCHER_APP_NAME == "lnk_launcher_app"
OBJ_LAUNCHER_RETROPLAYER == "RETROPLAYER"
OBJ_LAUNCHER_LNK == "LNK"
OBJ_LAUNCHER_ROM == "ROM"
OBJ_LAUNCHER_STANDALONE == "STANDALONE"

\* Launchers as categories.xml may hold them: m_name and application are
\* always there (execute and _set_launchertype read them unconditionally),
\* rompath and type may be missing or empty.
Absent == "<absent>"
LauncherDict(app, rompath, type) ==
    LET keys == {"m_name", "application"}
                \cup (IF rompath = Absent THEN {} ELSE {"rompath"})
                \cup (IF type = Absent THEN {} ELSE {"type"})
    IN  [k \in keys |->
            CASE k = "m_name" -> "name"
              [] k = "application" -> app
              [] k = "rompath" -> rompath
              [] k = "type" -> type]

LauncherPool ==
    { LauncherDict(app, rompath, type) :
        app \in {RETROPLAYER_LAUNCHER_APP_NAME, LNK_LAUNCHER_APP_NAME, "/usr/bin/emu"},
        rompath \in {Absent, "", "/roms"},
        type \in {Absent, "", OBJ_LAUNCHER_ROM} }

\* Keys of the launchers dict.
LauncherIds == <<"L1", "L2", "L3", "L4">>
LauncherFiles ==
    UNION { [{LauncherIds[i] : i \in 1..n} -> LauncherPool] : n \in 0..MaxLaunchers }

\* "does not yet contain launcher type?" (line 36)
NeedsType_MissingOnly(launcher) == "type" \notin DOMAIN launcher
NeedsType(launcher) == "type" \notin DOMAIN launcher \/ launcher["type"] = ""

\* FileName(launcher['application']).getPath(): the string with every '\'
\* replaced by '/' (utils.py 1741, 1853); the names above hold none.
ApplicationPath(launcher) == launcher["application"]

\* _set_launchertype (43-63): the launcher with its 'type' assigned.
set_launchertype(launcher) ==
    LET application == ApplicationPath(launcher)
        type == IF application = RETROPLAYER_LAUNCHER_APP_NAME
                THEN OBJ_LAUNCHER_RETROPLAYER
                ELSE IF application = LNK_LAUNCHER_APP_NAME
                THEN OBJ_LAUNCHER_LNK
                ELSE IF "rompath" \in DOMAIN launcher /\ launcher["rompath"] # ""
                THEN OBJ_LAUNCHER_ROM
                ELSE OBJ_LAUNCHER_STANDALONE
    IN  DictSet(launcher, "type", type)

InitMigration ==
    /\ MigrationAlone
    /\ categories_file \in LauncherFiles
    /\ launchers = EmptyDict
    /\ mig_pc = "call"
    /\ mig_visited = {}
    /\ mig_runs = 0
    /\ file_before = EmptyDict

\* execute is entered and fs_load_catfile fills launchers (24-30).
MigLoad ==
    /\ mig_pc \in {"call", "done"}
    /\ mig_runs < MaxMigrations
    /\ mig_runs' = mig_runs + 1
    /\ launchers' = categories_file
    /\ file_before' = categories_file
    /\ mig_visited' = {}
    /\ mig_pc' = "loop"
    /\ UNCHANGED categories_file
    /\ MigrationOnly

\* One pass of `for key, launcher in launchers.iteritems()` (32-38); the
\* order of a dict's items is not fixed.
MigLauncher ==
    /\ mig_pc = "loop"
    /\ \E key \in DOMAIN launchers \ mig_visited :
          /\ mig_visited' = mig_visited \cup {key}
          /\ launchers' =
                 IF NeedsType(launchers[key])
                 THEN [launchers EXCEPT ![key] = set_launchertype(launchers[key])]
                 ELSE launchers
    /\ UNCHANGED <<categories_file, mig_pc, mig_runs, file_before>>
    /\ MigrationOnly

\* fs_write_catfile stores the launchers and execute returns (40-41).
MigWrite ==
    /\ mig_pc = "loop"
    /\ mig_visited = DOMAIN launchers
    /\ categories_file' = launchers
    /\ mig_pc' = "done"
    /\ UNCHANGED <<launchers, mig_visited, mig_runs, file_before>>
    /\ MigrationOnly

NextMigration ==
    \/ MigLoad
    \/ MigLauncher
    \/ MigWrite

SpecMigration == InitMigration /\ [][NextMigration]_vars

\* ---- C28 ----
HasType(launcher) == "type" \in DOMAIN launcher /\ launcher["type"] # ""

\* The type the claim assigns to a launcher without one.
GuessedType(launcher) ==
    IF launcher["application"] = "retroplayer_launcher_app" THEN "RETROPLAYER"
    ELSE IF launcher["application"] = "lnk_launcher_app" THEN "LNK"
    ELSE IF "rompath" \in DOMAIN launcher /\ launcher["rompath"] # "" THEN "ROM"
    ELSE "STANDALONE"

\* C28: execute sets 'type' only on launchers that have no 'type' or an empty
\* one; a launcher with a non-empty type, and every other field of every
\* launcher, is as before. The type is RETROPLAYER for the Retroplayer app
\* name, else LNK for the LNK app name, else ROM when rompath is present and
\* non-empty, else STANDALONE. Afterwards every launcher has a non-empty
\* type, and a second run changes nothing.
C28_MigrationSetsType ==
    mig_pc = "done" =>
        /\ DOMAIN categories_file = DOMAIN file_before
        /\ \A key \in DOMAIN categories_file :
              LET old == file_before[key]
                  new == categories_file[key]
              IN  /\ HasType(new)
                  /\ HasType(old) => new = old
                  /\ ~HasType(old) =>
                        /\ DOMAIN new = DOMAIN old \cup {"type"}
                        /\ \A k \in DOMAIN old \ {"type"} : new[k] = old[k]
                        /\ new["type"] = GuessedType(old)
        /\ mig_runs >= 2 => categories_file = file_before

\* The first run has ended on a file that held a launcher with an empty type
\* and a rompath, now ROM, and a launcher that had its type, left alone.
C28_Witness ==
    /\ mig_pc = "done"
    /\ mig_runs = 1
    /\ \E a, b \in DOMAIN file_before :
          /\ "type" \in DOMAIN file_before[a]
          /\ file_before[a]["type"] = ""
          /\ categories_file[a]["type"] = "ROM"
          /\ file_before[a]["application"] = "/usr/bin/emu"
          /\ HasType(file_before[b])
          /\ file_before[b]["application"] = "lnk_launcher_app"

\* ------------------------------------------------------------------------
\* misc_read_in_chunks over files of more than one chunk
\* ------------------------------------------------------------------------
MaxChunks == 2

\* A file of n bytes.
BigFile(n) == [i \in 1..n |-> <<97, 0, 255>>[(i % 3) + 1]]

\* The short files, a file of exactly one chunk, a file one byte longer and a
\* file of exactly MaxChunks chunks.
ChunkFiles ==
    Files \cup { BigFile(n) : n \in {chunk_size, chunk_size + 1, MaxChunks * chunk_size} }

InitChunks ==
    /\ file_bytes \in ChunkFiles
    /\ cks_pc = "call"
    /\ f_state = "none"
    /\ f_pos = 0
    /\ crc_prev = NoValue
    /\ md5 = NoValue
    /\ sha1 = NoValue
    /\ crc_digest = NoValue
    /\ md5_digest = NoValue
    /\ sha1_digest = NoValue
    /\ size = NoValue
    /\ cks_exc = ""
    /\ checksums = NotReturned
    /\ CksAlone

SpecChunks == InitChunks /\ [][NextChecksum]_vars

\* ---- C24 ----
\* C24: misc_read_in_chunks yields, in file order, chunks that are non-empty
\* and at most 8192 bytes long, all but the last exactly 8192, whose
\* concatenation is the file content, and stops at the first empty read; so
\* the CRC32 threaded through the chunks and the incrementally fed MD5 and
\* SHA1 are those of the whole content taken in one step, for every length,
\* 0 and the multiples of 8192 included.
C24_ChunkedEqualsWhole ==
    [][cks_pc = "loop" =>
         /\ (cks_pc' = "loop" /\ f_pos' # f_pos) =>
               /\ f_pos' - f_pos >= 1
               /\ f_pos' - f_pos <= 8192
               /\ (f_pos' - f_pos < 8192) => f_pos' = Len(file_bytes)
               /\ md5' = md5 \o SubSeq(file_bytes, f_pos + 1, f_pos')
               /\ sha1' = sha1 \o SubSeq(file_bytes, f_pos + 1, f_pos')
         /\ cks_pc' = "digests" =>
               /\ f_pos = Len(file_bytes)
               /\ md5 = file_bytes
               /\ sha1 = file_bytes
               /\ crc_prev = zlib_crc32(file_bytes, Int32(0, 0))
      ]_vars

\* The checksums of a file of 8193 bytes, read as a chunk of 8192 bytes and a
\* chunk of one byte, are returned.
C24_Witness ==
    /\ cks_pc = "returned"
    /\ checksums # PyNone
    /\ Len(file_bytes) = 8192 + 1
    /\ f_pos = Len(file_bytes)

\* ---- C25 ----
\* The basenames of the other discs of the set of basename b: one marker
\* token each, and the same cleaned tokens around it in the same order.
SameSetBasenames(b) ==
    LET toks == text_get_ROM_basename_tokens(b)
    IN  { o \in Basenames(MaxPieces) :
            LET otoks == text_get_ROM_basename_tokens(o)
            IN  /\ Cardinality(MarkerPositions(otoks)) = 1
                /\ WithoutIndex(otoks, FirstMarker(otoks)) =
                       WithoutIndex(toks, FirstMarker(toks)) }

\* C25: every disc of a set gets the same setName: for a basename with one
\* disc-marker token the call returns order = the N of the marker and the
\* setName made of the other cleaned tokens and the extension, which is the
\* setName of every basename that has the same other tokens in the same order,
\* one marker token (of either form, at any position) and the same extension.
C25_SameSetName ==
    LET toks == text_get_ROM_basename_tokens(getBaseNoExt(ROM_FN))
    IN  (md_pc \in {"returned", "raised"} /\ Cardinality(MarkerPositions(toks)) = 1) =>
            /\ md_ret.kind = "MultiDiscInfo"
            /\ md_ret.MDSet.order = MarkerN(toks[FirstMarker(toks)])
            /\ \A o \in SameSetBasenames(getBaseNoExt(ROM_FN)) :
                  LET otoks == text_get_ROM_basename_tokens(o)
                  IN  md_ret.MDSet.setName =
                          JoinSpace(WithoutIndex(otoks, FirstMarker(otoks))) \o getExt(ROM_FN)

\* ---- C29 ----
\* The call read the whole file and returned its catalog.
ParsedToEnd ==
    /\ tmp_pc = "returned"
    /\ ini_exists
    /\ line_no = Len(ini_lines)

\* The section names of the header lines of the file.
HeaderNames ==
    { SearchSection(StrStrip(ini_lines[k])) :
        k \in { j \in 1..Len(ini_lines) : IsHeaderLine(StrStrip(ini_lines[j])) } }

\* C29: when parsing ends without a fatal error, the header accepted last in
\* state 0 has its record in the returned catalog even when the file ends
\* right after its last field line, and every section header of the file was
\* accepted and has a record under its name, including a header that directly
\* follows the last field line of the previous section.
C29_EveryHeaderRecorded ==
    ParsedToEnd =>
        /\ read_status = 1 => game_key \in DOMAIN tmp_ret.games
        /\ \A name \in HeaderNames :
              /\ name \in DOMAIN tmp_ret.games
              /\ tmp_ret.games[name].name = name

====
